---- MODULE Spec2Model ----
(***************************************************************************)
(* MediaWarden: the filesystem reconciler (app/services/filesystem.py),    *)
(* the trash lifecycle (app/services/trash.py), the clear-missing route    *)
(* and the scan worker with its status record (app/routers/libraries.py).  *)
(*                                                                         *)
(* One library.  A path is the sequence of its components relative to the *)
(* library root, so <<".trash", "a.mkv">> is <root>/.trash/a.mkv.          *)
(* The store hands out ids as SQLite does for an INTEGER PRIMARY KEY:      *)
(* one more than the largest id in use.                                    *)
(***************************************************************************)
EXTENDS Integers, Sequences, FiniteSets, TLC

\* ---------------------------------------------------------------- bounds
MaxTime == 1          \* the clock runs 0..MaxTime
MaxItemId == 3        \* media_items ids stay within 1..MaxItemId
MaxEntryId == 2       \* trash_entries ids stay within 1..MaxEntryId
MaxWorkers == 2       \* scan worker threads that can be alive at once
MaxRows == 1          \* media_items rows in a table taken as given
MaxTorrents == 3      \* torrents the torrent client reports
MaxListed == 2        \* torrents of a client whose requests can fail

\* ------------------------------------------------------------- constants
TRASH == ".trash"
NoTime == 0 - 1       \* a null DateTime column
NoPath == << >>       \* a null Text column holding a path

\* A value or None.
None == << >>
Some(x) == <<x>>

\* db.get(Library, library_id) of a library that was deleted
NoLibrary == << >>

\* Library.trash_retention_days, in clock ticks
trash_retention_days == 1

\* Library.id of the library of the model; rows of other libraries carry
\* another id.
library_id == 1
LibraryIds == {library_id, library_id + 1}

VIDEO_EXTENSIONS == {".mkv", ".mp4", ".avi", ".mov", ".m4v", ".wmv", ".flv", ".ts"}

\* The file names of the model and what Path.suffix.lower() gives for each.
SuffixLower(name) ==
    CASE name = "a.mkv" -> ".mkv"
      [] name = "b.MP4" -> ".mp4"
      [] name = "n.txt" -> ".txt"
      [] OTHER -> ""

\* The media paths of the model: one file of the library and the place the
\* trash gives it.  Moves that would leave this set are not explored.
MediaPaths == {<<"Show", "b.MP4">>, <<TRASH, "Show", "b.MP4">>}

\* What stat can report for a file the environment wrote.
Sizes == {1, 2}
Mtimes == {1, 2}

\* A file that is no video lies below the root all along.
OtherFiles == (<<"n.txt">> :> [size |-> 1, mtime |-> 1])

Max(S) == CHOOSE x \in S : \A y \in S : y <= x

\* ------------------------------------------------------------------ state
VARIABLES
    fs,         \* the files on disk: path -> [size, mtime], present paths only
    items,      \* table media_items: id -> row
    entries,    \* table trash_entries: id -> row
    library,    \* the Library row
    now,        \* datetime.utcnow()
    scanTx,     \* the session of a scan under way: the rows it loaded
    purgeTx,    \* the session of a purge sweep under way
    scan_status,\* app.state.scan_status[library.id]; << >> when the dict has no entry
    worker,     \* the scan worker threads: where each is in _scan_worker
    qb          \* what the torrent client answers: its torrents and their files

core == <<fs, items, entries, library, now>>
txs == <<scanTx, purgeTx>>
web == <<scan_status, worker>>
vars == <<fs, items, entries, library, now, scanTx, purgeTx, scan_status, worker, qb>>

\* Path.parts contains ".trash"
InTrashParts(p) == \E i \in 1..Len(p) : p[i] = TRASH

\* ------------------------------------------------------------ Path Walker
\* _iter_files: every file below the root whose suffix is a video extension.
\* os.walk descends into every directory, ".trash" included.
iter_files(files) ==
    {p \in DOMAIN files : SuffixLower(p[Len(p)]) \in VIDEO_EXTENSIONS}

\* The order in which os.walk yields the paths: one fixed listing order.
RECURSIVE WalkOrder(_)
WalkOrder(S) ==
    IF S = {} THEN << >>
    ELSE LET p == CHOOSE q \in S : \A r \in S : Len(q) <= Len(r)
         IN  <<p>> \o WalkOrder(S \ {p})

\* -------------------------------------------------------------- Reconciler
\* The dictionary built from the rows that are not in the trash only.
ExistingByPath_NotTrashed(its) ==
    LET mine == {i \in DOMAIN its : its[i].library_id = library_id /\ ~its[i].is_in_trash}
    IN  [p \in {its[i].path : i \in mine} |-> Max({i \in mine : its[i].path = p})]

\* existing = {item.path: item for item in query}: the last row of a path wins.
ExistingByPath(its) ==
    LET mine == {i \in DOMAIN its : its[i].library_id = library_id}
    IN  [p \in {its[i].path : i \in mine} |-> Max({i \in mine : its[i].path = p})]

NextId(tbl) == IF DOMAIN tbl = {} THEN 1 ELSE Max(DOMAIN tbl) + 1

NewMediaItem(p, st, t) ==
    [library_id |-> library_id,
     path |-> p, size_bytes |-> st.size, modified_at |-> st.mtime,
     last_scan_at |-> t, is_missing |-> FALSE, is_in_trash |-> FALSE,
     trashed_at |-> NoTime, trashed_path |-> NoPath,
     torrent_hash |-> None, torrent_ratio |-> None, torrent_seed_time |-> None,
     torrent_seeders |-> None, torrent_leechers |-> None]

\* The walk loop counting an updated item as created too.
ScanVisit_CountsUpdates(acc, p, existing, files, statFail, t) ==
    IF p \in statFail THEN acc
    ELSE IF p \notin DOMAIN existing
    THEN [acc EXCEPT !.items = (NextId(acc.items) :> NewMediaItem(p, files[p], t)) @@ @,
                     !.created = @ + 1]
    ELSE LET id == existing[p]
             it == acc.items[id]
             changed == \/ it.size_bytes # files[p].size
                        \/ it.modified_at # files[p].mtime
                        \/ it.is_missing
         IN  [acc EXCEPT !.items[id] = [it EXCEPT !.size_bytes = files[p].size,
                                                  !.modified_at = files[p].mtime,
                                                  !.is_missing = FALSE,
                                                  !.last_scan_at = t],
                         !.updated = IF changed THEN @ + 1 ELSE @,
                         !.created = IF changed THEN @ + 1 ELSE @]

\* The walk loop without its "item.is_missing = False".
ScanVisit_KeepMissing(acc, p, existing, files, statFail, t) ==
    IF p \in statFail THEN acc
    ELSE IF p \notin DOMAIN existing
    THEN [acc EXCEPT !.items = (NextId(acc.items) :> NewMediaItem(p, files[p], t)) @@ @,
                     !.created = @ + 1]
    ELSE LET id == existing[p]
             it == acc.items[id]
             changed == \/ it.size_bytes # files[p].size
                        \/ it.modified_at # files[p].mtime
                        \/ it.is_missing
         IN  [acc EXCEPT !.items[id] = [it EXCEPT !.size_bytes = files[p].size,
                                                  !.modified_at = files[p].mtime,
                                                  !.last_scan_at = t],
                         !.updated = IF changed THEN @ + 1 ELSE @]

\* One iteration of the walk loop for path p (lines 67-103).  statFail is the
\* set of paths whose stat raised FileNotFoundError (vanished since listed).
ScanVisit(acc, p, existing, files, statFail, t) ==
    IF p \in statFail THEN acc
    ELSE IF p \notin DOMAIN existing
    THEN [acc EXCEPT !.items = (NextId(acc.items) :> NewMediaItem(p, files[p], t)) @@ @,
                     !.created = @ + 1]
    ELSE LET id == existing[p]
             it == acc.items[id]
             changed == \/ it.size_bytes # files[p].size
                        \/ it.modified_at # files[p].mtime
                        \/ it.is_missing
         IN  [acc EXCEPT !.items[id] = [it EXCEPT !.size_bytes = files[p].size,
                                                  !.modified_at = files[p].mtime,
                                                  !.is_missing = FALSE,
                                                  !.last_scan_at = t],
                         !.updated = IF changed THEN @ + 1 ELSE @]

RECURSIVE ScanWalk(_, _, _, _, _, _)
ScanWalk(acc, walk, existing, files, statFail, t) ==
    IF walk = << >> THEN acc
    ELSE ScanWalk(ScanVisit(acc, Head(walk), existing, files, statFail, t),
                  Tail(walk), existing, files, statFail, t)

\* The missing loop without its "if not item.is_missing".
MissingIds_Recount(its, existing, seen) ==
    {existing[p] : p \in {q \in DOMAIN existing :
        q \notin seen /\ ~its[existing[q]].is_in_trash}}

\* The missing loop without its "not item.is_in_trash".
MissingIds_FlagTrashed(its, existing, seen) ==
    {existing[p] : p \in {q \in DOMAIN existing :
        q \notin seen /\ ~its[existing[q]].is_missing}}

\* The paths the missing loop flags (lines 116-121).
MissingIds(its, existing, seen) ==
    {existing[p] : p \in {q \in DOMAIN existing :
        /\ q \notin seen
        /\ ~its[existing[q]].is_in_trash
        /\ ~its[existing[q]].is_missing}}

\* trigger_plex_rescan: whether refresh_section is called.  What the call
\* raises is logged and dropped (lines 12-15).
trigger_plex_rescan(lib) == lib.enable_plex /\ lib.plex_url # None

\* scan_library without its first two lines: a library with filesystem
\* scanning switched off is walked as any other.
scan_library_NoGuard(its, lib, files, statFail, t) ==
    LET existing == ExistingByPath(its)
        seen == iter_files(files)
        walked == ScanWalk([items |-> its, created |-> 0, updated |-> 0],
                           WalkOrder(seen), existing, files, statFail, t)
        gone == MissingIds(walked.items, existing, seen)
    IN  [items |-> [i \in DOMAIN walked.items |->
                       IF i \in gone
                       THEN [walked.items[i] EXCEPT !.is_missing = TRUE]
                       ELSE walked.items[i]],
         scanned |-> Cardinality(seen),
         updated |-> walked.updated,
         created |-> walked.created,
         missing |-> Cardinality(gone),
         refresh |-> /\ lib.enable_plex
                     /\ walked.created > 0 \/ walked.updated > 0
                     /\ trigger_plex_rescan(lib)]

\* scan_library(db, library): its is the table as loaded, files the disk as
\* walked.  Gives the table to commit, the returned counts, and whether the
\* refresh of the media server is requested (lines 134-135).
scan_library(its, lib, files, statFail, t) ==
    IF ~lib.enable_filesystem
    THEN [items |-> its, scanned |-> 0, updated |-> 0, created |-> 0, missing |-> 0,
          refresh |-> FALSE]
    ELSE LET existing == ExistingByPath(its)
             seen == iter_files(files)
             walked == ScanWalk([items |-> its, created |-> 0, updated |-> 0],
                                WalkOrder(seen), existing, files, statFail, t)
             gone == MissingIds(walked.items, existing, seen)
         IN  [items |-> [i \in DOMAIN walked.items |->
                            IF i \in gone
                            THEN [walked.items[i] EXCEPT !.is_missing = TRUE]
                            ELSE walked.items[i]],
              scanned |-> Cardinality(seen),
              updated |-> walked.updated,
              created |-> walked.created,
              missing |-> Cardinality(gone),
              refresh |-> /\ lib.enable_plex
                          /\ walked.created > 0 \/ walked.updated > 0
                          /\ trigger_plex_rescan(lib)]

\* ------------------------------------------------------------------ trash
Remove(f, k) == [x \in DOMAIN f \ {k} |-> f[x]]

\* shutil.move(src, dst) of a file: a rename, replacing a file already at dst.
MoveFile(files, src, dst) == (dst :> files[src]) @@ Remove(files, src)

\* _trash_root(library) / relative
trash_root(relative) == <<TRASH>> \o relative

\* move_to_trash without its "item.is_missing = False".
move_to_trash_KeepMissing(its, ents, files, id, t) ==
    LET item == its[id]
        src == item.path
        dst == trash_root(src)
        same == [moved |-> FALSE, items |-> its, entries |-> ents, fs |-> files,
                 entry |-> 0, reason |-> ""]
    IN  IF item.is_in_trash THEN [same EXCEPT !.reason = "already_in_trash"]
        ELSE IF src \notin DOMAIN files THEN [same EXCEPT !.reason = "missing"]
        ELSE [moved |-> TRUE,
              reason |-> "",
              fs |-> MoveFile(files, src, dst),
              items |-> [its EXCEPT ![id] = [@ EXCEPT !.is_in_trash = TRUE,
                                                      !.trashed_at = t,
                                                      !.trashed_path = dst]],
              entry |-> NextId(ents),
              entries |-> (NextId(ents) :>
                            [library_id |-> library_id,
                             media_item_id |-> id,
                             original_path |-> src,
                             trashed_path |-> dst,
                             trashed_at |-> t,
                             purge_after |-> t + trash_retention_days]) @@ ents]

\* move_to_trash with purge_after set to the time of the move.
move_to_trash_NoRetention(its, ents, files, id, t) ==
    LET item == its[id]
        src == item.path
        dst == trash_root(src)
        same == [moved |-> FALSE, items |-> its, entries |-> ents, fs |-> files,
                 entry |-> 0, reason |-> ""]
    IN  IF item.is_in_trash THEN [same EXCEPT !.reason = "already_in_trash"]
        ELSE IF src \notin DOMAIN files THEN [same EXCEPT !.reason = "missing"]
        ELSE [moved |-> TRUE,
              reason |-> "",
              fs |-> MoveFile(files, src, dst),
              items |-> [its EXCEPT ![id] = [@ EXCEPT !.is_in_trash = TRUE,
                                                      !.is_missing = FALSE,
                                                      !.trashed_at = t,
                                                      !.trashed_path = dst]],
              entry |-> NextId(ents),
              entries |-> (NextId(ents) :>
                            [library_id |-> library_id,
                             media_item_id |-> id,
                             original_path |-> src,
                             trashed_path |-> dst,
                             trashed_at |-> t,
                             purge_after |-> t]) @@ ents]

\* move_to_trash with its two checks in the other order.
move_to_trash_MissingFirst(its, ents, files, id, t) ==
    LET item == its[id]
        src == item.path
        dst == trash_root(src)
        same == [moved |-> FALSE, items |-> its, entries |-> ents, fs |-> files,
                 entry |-> 0, reason |-> ""]
    IN  IF src \notin DOMAIN files THEN [same EXCEPT !.reason = "missing"]
        ELSE IF item.is_in_trash THEN [same EXCEPT !.reason = "already_in_trash"]
        ELSE [moved |-> TRUE,
              reason |-> "",
              fs |-> MoveFile(files, src, dst),
              items |-> [its EXCEPT ![id] = [@ EXCEPT !.is_in_trash = TRUE,
                                                      !.is_missing = FALSE,
                                                      !.trashed_at = t,
                                                      !.trashed_path = dst]],
              entry |-> NextId(ents),
              entries |-> (NextId(ents) :>
                            [library_id |-> library_id,
                             media_item_id |-> id,
                             original_path |-> src,
                             trashed_path |-> dst,
                             trashed_at |-> t,
                             purge_after |-> t + trash_retention_days]) @@ ents]

\* move_to_trash without its "item.trashed_path = str(dst)".
move_to_trash_NoTrashedPath(its, ents, files, id, t) ==
    LET item == its[id]
        src == item.path
        dst == trash_root(src)
        same == [moved |-> FALSE, items |-> its, entries |-> ents, fs |-> files,
                 entry |-> 0, reason |-> ""]
    IN  IF item.is_in_trash THEN [same EXCEPT !.reason = "already_in_trash"]
        ELSE IF src \notin DOMAIN files THEN [same EXCEPT !.reason = "missing"]
        ELSE [moved |-> TRUE,
              reason |-> "",
              fs |-> MoveFile(files, src, dst),
              items |-> [its EXCEPT ![id] = [@ EXCEPT !.is_in_trash = TRUE,
                                                      !.is_missing = FALSE,
                                                      !.trashed_at = t]],
              entry |-> NextId(ents),
              entries |-> (NextId(ents) :>
                            [library_id |-> library_id,
                             media_item_id |-> id,
                             original_path |-> src,
                             trashed_path |-> dst,
                             trashed_at |-> t,
                             purge_after |-> t + trash_retention_days]) @@ ents]

\* move_to_trash(db, library, item)
move_to_trash(its, ents, files, id, t) ==
    LET item == its[id]
        src == item.path
        dst == trash_root(src)
        same == [moved |-> FALSE, items |-> its, entries |-> ents, fs |-> files,
                 entry |-> 0, reason |-> ""]
    IN  IF item.is_in_trash THEN [same EXCEPT !.reason = "already_in_trash"]
        ELSE IF src \notin DOMAIN files THEN [same EXCEPT !.reason = "missing"]
        ELSE [moved |-> TRUE,
              reason |-> "",
              fs |-> MoveFile(files, src, dst),
              items |-> [its EXCEPT ![id] = [@ EXCEPT !.is_in_trash = TRUE,
                                                      !.is_missing = FALSE,
                                                      !.trashed_at = t,
                                                      !.trashed_path = dst]],
              entry |-> NextId(ents),
              entries |-> (NextId(ents) :>
                            [library_id |-> library_id,
                             media_item_id |-> id,
                             original_path |-> src,
                             trashed_path |-> dst,
                             trashed_at |-> t,
                             purge_after |-> t + trash_retention_days]) @@ ents]

\* restore_from_trash without its "db.delete(entry)".
restore_from_trash_KeepEntry(its, ents, files, eid) ==
    LET entry == ents[eid]
        src == entry.trashed_path
        dst == entry.original_path
        id == entry.media_item_id
        same == [restored |-> FALSE, items |-> its, entries |-> ents, fs |-> files,
                 reason |-> ""]
    IN  IF src \notin DOMAIN files THEN [same EXCEPT !.reason = "missing"]
        ELSE IF ~InTrashParts(src) THEN [same EXCEPT !.reason = "invalid_trash_path"]
        ELSE [restored |-> TRUE,
              reason |-> "",
              fs |-> MoveFile(files, src, dst),
              items |-> IF id \in DOMAIN its
                        THEN [its EXCEPT ![id] = [@ EXCEPT !.is_in_trash = FALSE,
                                                          !.trashed_at = NoTime,
                                                          !.trashed_path = NoPath,
                                                          !.path = dst]]
                        ELSE its,
              entries |-> ents]

\* restore_from_trash without its test for a ".trash" segment.
restore_from_trash_NoGuard(its, ents, files, eid) ==
    LET entry == ents[eid]
        src == entry.trashed_path
        dst == entry.original_path
        id == entry.media_item_id
        same == [restored |-> FALSE, items |-> its, entries |-> ents, fs |-> files,
                 reason |-> ""]
    IN  IF src \notin DOMAIN files THEN [same EXCEPT !.reason = "missing"]
        ELSE [restored |-> TRUE,
              reason |-> "",
              fs |-> MoveFile(files, src, dst),
              items |-> IF id \in DOMAIN its
                        THEN [its EXCEPT ![id] = [@ EXCEPT !.is_in_trash = FALSE,
                                                          !.trashed_at = NoTime,
                                                          !.trashed_path = NoPath,
                                                          !.path = dst]]
                        ELSE its,
              entries |-> Remove(ents, eid)]

\* restore_from_trash(db, library, entry)
restore_from_trash(its, ents, files, eid) ==
    LET entry == ents[eid]
        src == entry.trashed_path
        dst == entry.original_path
        id == entry.media_item_id
        same == [restored |-> FALSE, items |-> its, entries |-> ents, fs |-> files,
                 reason |-> ""]
    IN  IF src \notin DOMAIN files THEN [same EXCEPT !.reason = "missing"]
        ELSE IF ~InTrashParts(src) THEN [same EXCEPT !.reason = "invalid_trash_path"]
        ELSE [restored |-> TRUE,
              reason |-> "",
              fs |-> MoveFile(files, src, dst),
              items |-> IF id \in DOMAIN its
                        THEN [its EXCEPT ![id] = [@ EXCEPT !.is_in_trash = FALSE,
                                                          !.trashed_at = NoTime,
                                                          !.trashed_path = NoPath,
                                                          !.path = dst]]
                        ELSE its,
              entries |-> Remove(ents, eid)]

\* The query of purge_expired_trash without its filter on purge_after.
Expired_All(ents, t) == DOMAIN ents

\* The query of purge_expired_trash: TrashEntry.purge_after <= now.
Expired(ents, t) == {e \in DOMAIN ents : ents[e].purge_after <= t}

\* The body of the purge loop without its test for a ".trash" segment.
PurgeOne_NoGuard(files, ents, eid, entry, fails) ==
    LET path == entry.trashed_path
        guard == path \in DOMAIN files
    IN  IF guard /\ fails
        THEN [fs |-> files, entries |-> ents, purged |-> 0]
        ELSE [fs |-> IF guard THEN Remove(files, path) ELSE files,
              entries |-> Remove(ents, eid),
              purged |-> 1]

\* The body of the purge loop for one loaded entry (lines 104-115).  files and
\* ents are the disk and the table as they are when the iteration runs; entry
\* is the row as loaded; fails says that unlink raised.
PurgeOne(files, ents, eid, entry, fails) ==
    LET path == entry.trashed_path
        guard == path \in DOMAIN files /\ InTrashParts(path)
    IN  IF guard /\ fails
        THEN [fs |-> files, entries |-> ents, purged |-> 0]
        ELSE [fs |-> IF guard THEN Remove(files, path) ELSE files,
              entries |-> Remove(ents, eid),
              purged |-> 1]

RECURSIVE PurgeLoop(_, _, _, _, _)
PurgeLoop(files, ents, todo, loaded, failing) ==
    IF todo = {} THEN [fs |-> files, entries |-> ents, purged |-> 0]
    ELSE LET e == CHOOSE x \in todo : \A y \in todo : x <= y
             one == PurgeOne(files, ents, e, loaded[e], e \in failing)
             rest == PurgeLoop(one.fs, one.entries, todo \ {e}, loaded, failing)
         IN  [rest EXCEPT !.purged = @ + one.purged]

\* purge_expired_trash(), run to completion with nothing in between.
purge_expired_trash(ents, files, t, failing) ==
    PurgeLoop(files, ents, Expired(ents, t), ents, failing)

\* library_clear_missing without its filter on library_id.
library_clear_missing_AllLibraries(its) ==
    [i \in {j \in DOMAIN its : ~(its[j].is_missing /\ ~its[j].is_in_trash)} |-> its[i]]

\* library_clear_missing: delete the rows of the library with is_missing and
\* not is_in_trash.
library_clear_missing(its) ==
    [i \in {j \in DOMAIN its : ~(/\ its[j].library_id = library_id
                                 /\ its[j].is_missing
                                 /\ ~its[j].is_in_trash)} |-> its[i]]

\* No session open.
NoScanTx == [on |-> FALSE, rows |-> << >>]
NoPurgeTx == [on |-> FALSE, rows |-> << >>, todo |-> {}, kept |-> << >>]

NoWorker == [pc |-> "idle", total |-> 0]

\* A torrent client without torrents.
NoQb == [torrents |-> << >>, login_ok |-> TRUE, info_ok |-> TRUE]

\* ------------------------------------------------------------------- Init
Init ==
    /\ fs = OtherFiles
    /\ items = << >>
    /\ entries = << >>
    /\ library \in [enable_filesystem : BOOLEAN, enable_arr : {FALSE},
                     qb_url : {None}, qb_username : {None}, qb_password : {None},
                     qb_root_path : {<< >>}, name : {"Media"},
                     enable_plex : {FALSE}, plex_url : {None}]
    /\ now = 0
    /\ scanTx = NoScanTx
    /\ purgeTx = NoPurgeTx
    /\ scan_status = << >>
    /\ worker = [w \in 1..MaxWorkers |-> NoWorker]
    /\ qb = NoQb

\* ---------------------------------------------------------- environment
Tick ==
    /\ now < MaxTime
    /\ now' = now + 1
    /\ UNCHANGED <<fs, items, entries, library, txs, web, qb>>

\* A file is written (created or replaced) somewhere below the root.
EnvWrite ==
    \E p \in MediaPaths, s \in Sizes, m \in Mtimes :
        /\ fs' = (p :> [size |-> s, mtime |-> m]) @@ fs
        /\ fs' # fs
        /\ UNCHANGED <<items, entries, library, now, txs, web, qb>>

\* A file is removed from disk behind the program's back.
EnvDelete ==
    \E p \in DOMAIN fs \ DOMAIN OtherFiles :
        /\ fs' = [q \in DOMAIN fs \ {p} |-> fs[q]]
        /\ UNCHANGED <<items, entries, library, now, txs, web, qb>>

\* ------------------------------------------------------------------- scan
\* A completed scan_library.  vanished are the files that disappear between
\* os.walk listing them and path.stat().
ScanWith(vanished) ==
    LET r == scan_library(items, library, fs, vanished, now)
    IN  /\ library.enable_filesystem \/ vanished = {}
        /\ DOMAIN r.items \subseteq 1..MaxItemId
        /\ items' = r.items
        /\ fs' = [q \in DOMAIN fs \ vanished |-> fs[q]]
        /\ UNCHANGED <<entries, library, now, txs, web, qb>>

Scan == \E vanished \in SUBSET iter_files(fs) : ScanWith(vanished)

\* ------------------------------------------------------------ trash routes
\* action_execute with a media action: move_to_trash of one item.
MoveToTrashOf(id) ==
    LET r == move_to_trash(items, entries, fs, id, now)
    IN  /\ items[id].library_id = library_id
        /\ trash_root(items[id].path) \in MediaPaths
        /\ DOMAIN r.entries \subseteq 1..MaxEntryId
        /\ fs' = r.fs
        /\ items' = r.items
        /\ entries' = r.entries
        /\ UNCHANGED <<library, now, txs, web, qb>>

MoveToTrash == \E id \in DOMAIN items : MoveToTrashOf(id)

\* trash_restore: restore_from_trash of one entry.
RestoreOf(eid) ==
    LET r == restore_from_trash(items, entries, fs, eid)
    IN  /\ entries[eid].library_id = library_id
        /\ fs' = r.fs
        /\ items' = r.items
        /\ entries' = r.entries
        /\ UNCHANGED <<library, now, txs, web, qb>>

Restore == \E eid \in DOMAIN entries : RestoreOf(eid)

\* The scheduler's purge job, run to completion.  failing are the entries
\* whose file deletion raises.
PurgeExpiredWith(failing) ==
    LET r == purge_expired_trash(entries, fs, now, failing)
    IN  /\ fs' = r.fs
        /\ entries' = r.entries
        /\ UNCHANGED <<items, library, now, txs, web, qb>>

PurgeExpired == \E failing \in SUBSET Expired(entries, now) : PurgeExpiredWith(failing)

ClearMissing ==
    /\ items' = library_clear_missing(items)
    /\ UNCHANGED <<fs, entries, library, now, txs, web, qb>>

Next ==
    \/ Tick
    \/ EnvWrite
    \/ EnvDelete
    \/ Scan
    \/ MoveToTrash
    \/ Restore
    \/ PurgeExpired
    \/ ClearMissing

Spec == Init /\ [][Next]_vars

\* ---------------------------------------------- operations that interleave
\* db.commit() of a session that loaded the rows old and left them as new:
\* an UPDATE writes the columns the session changed into the row as it is in
\* the table now, and the rows the session added are inserted.
RECURSIVE Insert(_, _, _)
Insert(tbl, new, ids) ==
    IF ids = {} THEN tbl
    ELSE LET i == CHOOSE x \in ids : \A y \in ids : x <= y
         IN  Insert((NextId(tbl) :> new[i]) @@ tbl, new, ids \ {i})

Dirty(old, new) == {i \in DOMAIN old : new[i] # old[i]}

Commit(tbl, old, new) ==
    Insert([i \in DOMAIN tbl |->
                IF i \in Dirty(old, new)
                THEN [f \in DOMAIN tbl[i] |->
                        IF new[i][f] # old[i][f] THEN new[i][f] ELSE tbl[i][f]]
                ELSE tbl[i]],
           new, DOMAIN new \ DOMAIN old)

\* scan_library up to and including its query (line 61).
ScanLoad ==
    /\ ~scanTx.on
    /\ library.enable_filesystem
    /\ scanTx' = [on |-> TRUE, rows |-> items]
    /\ UNCHANGED <<core, purgeTx, web, qb>>

\* scan_library from the walk to db.commit() (lines 67-123).  The UPDATE of a
\* row that is gone raises and the session is rolled back.
ScanFinish ==
    \E vanished \in SUBSET iter_files(fs) :
        LET r == scan_library(scanTx.rows, library, fs, vanished, now)
            stale == Dirty(scanTx.rows, r.items) \ DOMAIN items
            done == Commit(items, scanTx.rows, r.items)
        IN  /\ scanTx.on
            /\ DOMAIN done \subseteq 1..MaxItemId
            /\ items' = IF stale = {} THEN done ELSE items
            /\ fs' = [q \in DOMAIN fs \ vanished |-> fs[q]]
            /\ scanTx' = NoScanTx
            /\ UNCHANGED <<entries, library, now, purgeTx, web, qb>>

\* purge_expired_trash up to and including its query (lines 98-101).
PurgeLoad ==
    /\ ~purgeTx.on
    /\ LET rows == [e \in Expired(entries, now) |-> entries[e]]
       IN  purgeTx' = [on |-> TRUE, rows |-> rows, todo |-> DOMAIN rows, kept |-> rows]
    /\ UNCHANGED <<core, scanTx, web, qb>>

\* One iteration of the purge loop, on the row as loaded.
PurgeStep ==
    \E fails \in BOOLEAN :
        LET e == CHOOSE x \in purgeTx.todo : \A y \in purgeTx.todo : x <= y
            one == PurgeOne(fs, purgeTx.kept, e, purgeTx.rows[e], fails)
        IN  /\ purgeTx.on
            /\ purgeTx.todo # {}
            /\ fails => purgeTx.rows[e].trashed_path \in DOMAIN fs
            /\ fs' = one.fs
            /\ purgeTx' = [purgeTx EXCEPT !.todo = @ \ {e}, !.kept = one.entries]
            /\ UNCHANGED <<items, entries, library, now, scanTx, web, qb>>

\* db.commit() of the sweep (line 116): the rows it deleted go, by id.
PurgeCommit ==
    /\ purgeTx.on
    /\ purgeTx.todo = {}
    /\ entries' = [e \in DOMAIN entries \ (DOMAIN purgeTx.rows \ DOMAIN purgeTx.kept) |->
                        entries[e]]
    /\ purgeTx' = NoPurgeTx
    /\ UNCHANGED <<fs, items, library, now, scanTx, web, qb>>

NextScanRace ==
    \/ EnvWrite
    \/ EnvDelete
    \/ MoveToTrash
    \/ Restore
    \/ ClearMissing
    \/ ScanLoad
    \/ ScanFinish

\* The scan worker side by side with the request handlers.
SpecScanRace == Init /\ [][NextScanRace]_vars

NextPurgeRace ==
    \/ Tick
    \/ EnvWrite
    \/ Scan
    \/ MoveToTrash
    \/ Restore
    \/ PurgeLoad
    \/ PurgeStep
    \/ PurgeCommit

\* The purge job side by side with the request handlers.
SpecPurgeRace == Init /\ [][NextPurgeRace]_vars

\* ---------------------------------------------------------- torrent index
\* Library.root_path and the path a MediaItem stores: the root followed by the
\* components below it.
root_path == <<"lib">>
AbsPath(p) == root_path \o p

\* str.lower() of the path components of the model.
Lower(c) ==
    CASE c = "Show" -> "show"
      [] c = "Other" -> "other"
      [] c = "b.MP4" -> "b.mp4"
      [] c = "Media" -> "media"
      [] OTHER -> c

\* 2 * 1024 * 1024, the size tolerance of the basename stage
TwoMiB == 2 * 1024 * 1024

\* A file size the client does not report (None)
NoSize == 0 - 1

IsPrefix(a, b) == Len(a) <= Len(b) /\ SubSeq(b, 1, Len(a)) = a

\* _build_file_paths: the paths of a torrent as the client names them, each
\* with the size the file listing gives.
build_file_paths(torrent, files) ==
    IF files # << >> /\ torrent.save_path # << >>
    THEN [k \in 1..Len(files) |->
            [path |-> torrent.save_path \o files[k].name, size |-> files[k].size]]
    ELSE IF torrent.content_path # << >>
    THEN IF files # << >>
         THEN [k \in 1..Len(files) |->
                [path |-> torrent.content_path \o files[k].name, size |-> files[k].size]]
         ELSE <<[path |-> torrent.content_path, size |-> NoSize]>>
    ELSE << >>

\* What is left of the path component c after the leading characters p, for
\* the component names of the model; None when c does not start with p.
StrRest(c, p) ==
    IF c = p THEN Some("")
    ELSE IF c = "database" /\ p = "data" THEN Some("base")
    ELSE None

\* normalized.startswith(qb_root_norm), a comparison of characters: the
\* components before the last of qb_root are equal and the next component of
\* the path starts with the last of qb_root.
StartsWith(path, qb_root) ==
    /\ Len(qb_root) <= Len(path)
    /\ SubSeq(path, 1, Len(qb_root) - 1) = SubSeq(qb_root, 1, Len(qb_root) - 1)
    /\ StrRest(path[Len(qb_root)], qb_root[Len(qb_root)]) # None

\* Lines 43-53: the heuristic mapping by a path segment equal to the basename
\* of the library root or to the library name.
MapBySegment(lib, path) ==
    LET lib_base == Lower(root_path[Len(root_path)])
        hits == {k \in 1..Len(path) :
                    Lower(path[k]) = lib_base \/ Lower(path[k]) = Lower(lib.name)}
    IN  IF hits = {} THEN path
        ELSE LET idx == CHOOSE k \in hits : \A j \in hits : k <= j
             IN  root_path \o SubSeq(path, idx + 1, Len(path))

\* _map_qb_path: a path of the client in the path space of the library.  With
\* qb_root_path set and the path starting with it, the characters after the
\* prefix are appended to the library root (lines 38-42).
map_qb_path(lib, path) ==
    IF lib.qb_root_path # << >> /\ StartsWith(path, lib.qb_root_path)
    THEN LET n == Len(lib.qb_root_path)
             rest == StrRest(path[n], lib.qb_root_path[n])[1]
             tail == SubSeq(path, n + 1, Len(path))
         IN  IF rest = "" THEN root_path \o tail
             ELSE SubSeq(root_path, 1, Len(root_path) - 1)
                    \o <<root_path[Len(root_path)] \o rest>> \o tail
    ELSE MapBySegment(lib, path)

\* The inner loop of build_torrent_index (lines 116-121) for one torrent.
RECURSIVE IndexPaths(_, _, _, _)
IndexPaths(acc, lib, torrent, paths) ==
    IF paths = << >> THEN acc
    ELSE LET mapped == map_qb_path(lib, Head(paths).path)
             base == mapped[Len(mapped)]
             cand == [torrent |-> torrent, size |-> Head(paths).size]
             next == [index |-> (mapped :> torrent) @@ acc.index,
                      basename_index |->
                        IF base \in DOMAIN acc.basename_index
                        THEN [acc.basename_index EXCEPT ![base] = Append(@, cand)]
                        ELSE (base :> <<cand>>) @@ acc.basename_index]
         IN  IndexPaths(next, lib, torrent, Tail(paths))

\* The loop of build_torrent_index over the torrents (lines 107-123).  A file
\* listing that fails counts as an empty listing.
RECURSIVE IndexTorrents(_, _, _)
IndexTorrents(acc, lib, torrents) ==
    IF torrents = << >> THEN acc
    ELSE LET torrent == Head(torrents)
             files == IF torrent.listing_ok THEN torrent.files ELSE << >>
         IN  IndexTorrents(
                IF torrent.hash = None THEN acc
                ELSE IndexPaths(acc, lib, torrent, build_file_paths(torrent, files)),
                lib, Tail(torrents))

\* _login: the error it raises, None when the client accepts the login.
login(lib, client) ==
    IF lib.qb_url = None \/ lib.qb_username = None \/ lib.qb_password = None
    THEN Some("qBittorrent credentials not configured")
    ELSE IF ~client.login_ok THEN Some("qBittorrent login failed")
    ELSE None

\* fetch_torrents without the login.
fetch_torrents_NoLogin(lib, client) ==
    IF ~client.info_ok THEN [error |-> Some("HTTPError"), torrents |-> << >>]
    ELSE [error |-> None, torrents |-> client.torrents]

\* fetch_torrents: the login, then the list of the torrents/info request,
\* whose raise_for_status() raises when the request is refused.
fetch_torrents(lib, client) ==
    IF login(lib, client) # None THEN [error |-> login(lib, client), torrents |-> << >>]
    ELSE IF ~client.info_ok THEN [error |-> Some("HTTPError"), torrents |-> << >>]
    ELSE [error |-> None, torrents |-> client.torrents]

\* build_torrent_index: the exact-path index and the basename index, or the
\* error fetch_torrents raises.
build_torrent_index(lib, client) ==
    LET fetched == fetch_torrents(lib, client)
        built == IndexTorrents([index |-> << >>, basename_index |-> << >>],
                               lib, fetched.torrents)
    IN  [error |-> fetched.error,
         index |-> built.index,
         basename_index |-> built.basename_index]

\* -------------------------------------------------------- torrent matcher
\* index.get(item.path)
ExactMatch(index, item) ==
    IF AbsPath(item.path) \in DOMAIN index THEN Some(index[AbsPath(item.path)]) ELSE None

Abs(x) == IF x < 0 THEN 0 - x ELSE x

\* A size that Python takes as true: neither None nor 0.
Truthy(size) == size # NoSize /\ size # 0

\* The basename stage (lines 144-151).
BasenameMatch(basename_index, item) ==
    LET base == item.path[Len(item.path)]
        candidates == IF base \in DOMAIN basename_index THEN basename_index[base] ELSE << >>
        fits == {k \in 1..Len(candidates) :
                    /\ Truthy(candidates[k].size)
                    /\ Abs(candidates[k].size - item.size_bytes) < TwoMiB}
    IN  IF Len(candidates) = 1 THEN Some(candidates[1].torrent)
        ELSE IF Len(candidates) > 1 /\ Truthy(item.size_bytes) /\ fits # {}
        THEN Some(candidates[CHOOSE k \in fits : \A j \in fits : k <= j].torrent)
        ELSE None

\* _normalize_path(item.path).split("/"): the path starts with "/", so the
\* first part is empty.
PathParts(item) == <<"">> \o AbsPath(item.path)

\* "/".join(parts[-depth:]).lower()
SuffixKey(parts, depth) ==
    [k \in 1..depth |-> Lower(parts[Len(parts) - depth + k])]

\* suffix_maps[depth].get(key, []): the items of the pass with that key.
SuffixMatches(its, ids, depth, key) ==
    {j \in ids : Len(PathParts(its[j])) >= depth /\ SuffixKey(PathParts(its[j]), depth) = key}

\* The suffix stage taking the first item of a key that several items have.
RECURSIVE SuffixMatch_Shared(_, _, _, _, _)
SuffixMatch_Shared(index, its, ids, item, depth) ==
    IF depth = 0 THEN None
    ELSE IF Len(PathParts(item)) < depth
    THEN SuffixMatch_Shared(index, its, ids, item, depth - 1)
    ELSE LET matches == SuffixMatches(its, ids, depth, SuffixKey(PathParts(item), depth))
             torrent == IF matches # {}
                        THEN ExactMatch(index, its[CHOOSE j \in matches :
                                                    \A k \in matches : j <= k])
                        ELSE None
         IN  IF torrent # None THEN torrent
             ELSE SuffixMatch_Shared(index, its, ids, item, depth - 1)

\* The suffix stage with maps that leave out the item being matched.
RECURSIVE SuffixMatch_Others(_, _, _, _, _)
SuffixMatch_Others(index, its, ids, item, depth) ==
    IF depth = 0 THEN None
    ELSE IF Len(PathParts(item)) < depth
    THEN SuffixMatch_Others(index, its, ids, item, depth - 1)
    ELSE LET matches == {j \in SuffixMatches(its, ids, depth,
                                             SuffixKey(PathParts(item), depth)) :
                            its[j] # item}
             torrent == IF Cardinality(matches) = 1
                        THEN ExactMatch(index, its[CHOOSE j \in matches : TRUE])
                        ELSE None
         IN  IF torrent # None THEN torrent
             ELSE SuffixMatch_Others(index, its, ids, item, depth - 1)

\* The suffix stage (lines 153-162), depth 3, then 2, then 1.
RECURSIVE SuffixMatch(_, _, _, _, _)
SuffixMatch(index, its, ids, item, depth) ==
    IF depth = 0 THEN None
    ELSE IF Len(PathParts(item)) < depth THEN SuffixMatch(index, its, ids, item, depth - 1)
    ELSE LET matches == SuffixMatches(its, ids, depth, SuffixKey(PathParts(item), depth))
             torrent == IF Cardinality(matches) = 1
                        THEN ExactMatch(index, its[CHOOSE j \in matches : TRUE])
                        ELSE None
         IN  IF torrent # None THEN torrent
             ELSE SuffixMatch(index, its, ids, item, depth - 1)

\* The stages in the other order: basename before exact path.
MatchTorrent_BasenameFirst(idx, its, ids, item) ==
    LET basename == BasenameMatch(idx.basename_index, item)
        exact == ExactMatch(idx.index, item)
    IN  IF basename # None THEN basename
        ELSE IF exact # None THEN exact
        ELSE SuffixMatch(idx.index, its, ids, item, 3)

\* The torrent sync_library_torrents finds for an item (lines 142-162).
MatchTorrent(idx, its, ids, item) ==
    LET exact == ExactMatch(idx.index, item)
        basename == BasenameMatch(idx.basename_index, item)
    IN  IF exact # None THEN exact
        ELSE IF basename # None THEN basename
        ELSE SuffixMatch(idx.index, its, ids, item, 3)

\* The numbers the client reports are counted in tenths, so that a ratio of
\* 1.5 is 15 and a count of 2 is 20.
Tenths == 10

\* float(x) keeps the number; int(x) drops the fraction.
float(x) == x
int(x) == x - (x % Tenths)

\* float(ratio) and int(seed_time) of a value the torrent reports, None
\* when it reports none.
AsFloat(reported) == IF reported = None THEN None ELSE Some(float(reported[1]))
AsInt(reported) == IF reported = None THEN None ELSE Some(int(reported[1]))

\* One torrent field on a match (lines 173-184): written when the torrent
\* reports a value and the stored one differs from the converted value.
Taken(stored, converted) ==
    IF converted # None /\ stored # converted THEN converted ELSE stored

\* The pass without lines 182-184: the leecher count is never copied.
ApplyTorrent_NoLeechers(item, found) ==
    IF found # None
    THEN LET torrent == found[1]
         IN  [item EXCEPT !.torrent_hash = torrent.hash,
                          !.torrent_ratio = Taken(@, AsFloat(torrent.ratio)),
                          !.torrent_seed_time = Taken(@, AsInt(torrent.seeding_time)),
                          !.torrent_seeders = Taken(@, AsInt(torrent.num_seeds))]
    ELSE [item EXCEPT !.torrent_hash = None,
                      !.torrent_ratio = None,
                      !.torrent_seed_time = None,
                      !.torrent_seeders = None,
                      !.torrent_leechers = None]

\* The pass clearing the hash alone when nothing matches.
ApplyTorrent_HashOnly(item, found) ==
    IF found # None
    THEN LET torrent == found[1]
         IN  [item EXCEPT !.torrent_hash = torrent.hash,
                          !.torrent_ratio = Taken(@, AsFloat(torrent.ratio)),
                          !.torrent_seed_time = Taken(@, AsInt(torrent.seeding_time)),
                          !.torrent_seeders = Taken(@, AsInt(torrent.num_seeds)),
                          !.torrent_leechers = Taken(@, AsInt(torrent.num_leechs))]
    ELSE [item EXCEPT !.torrent_hash = None]

\* Lines 163-202: the item after the pass.
ApplyTorrent(item, found) ==
    IF found # None
    THEN LET torrent == found[1]
         IN  [item EXCEPT !.torrent_hash = torrent.hash,
                          !.torrent_ratio = Taken(@, AsFloat(torrent.ratio)),
                          !.torrent_seed_time = Taken(@, AsInt(torrent.seeding_time)),
                          !.torrent_seeders = Taken(@, AsInt(torrent.num_seeds)),
                          !.torrent_leechers = Taken(@, AsInt(torrent.num_leechs))]
    ELSE [item EXCEPT !.torrent_hash = None,
                      !.torrent_ratio = None,
                      !.torrent_seed_time = None,
                      !.torrent_seeders = None,
                      !.torrent_leechers = None]

\* The flag "changed" set for every item that has a torrent.
Changed_EveryMatch(item, found) ==
    IF found # None THEN TRUE
    ELSE \/ item.torrent_hash # None
         \/ item.torrent_ratio # None
         \/ item.torrent_seed_time # None
         \/ item.torrent_seeders # None
         \/ item.torrent_leechers # None

\* Whether the matched branch or the unmatched branch writes a field of the
\* item (the flag "changed" of lines 163-202).
Changed(item, found) ==
    IF found # None
    THEN LET torrent == found[1]
         IN  \/ item.torrent_hash # torrent.hash
             \/ Taken(item.torrent_ratio, AsFloat(torrent.ratio)) # item.torrent_ratio
             \/ Taken(item.torrent_seed_time, AsInt(torrent.seeding_time))
                    # item.torrent_seed_time
             \/ Taken(item.torrent_seeders, AsInt(torrent.num_seeds)) # item.torrent_seeders
             \/ Taken(item.torrent_leechers, AsInt(torrent.num_leechs))
                    # item.torrent_leechers
    ELSE \/ item.torrent_hash # None
         \/ item.torrent_ratio # None
         \/ item.torrent_seed_time # None
         \/ item.torrent_seeders # None
         \/ item.torrent_leechers # None

\* The pass without its first two lines: it goes to the client whatever the
\* settings of the library are.
sync_library_torrents_NoGuard(its, lib, client) ==
    LET idx == build_torrent_index(lib, client)
        ids == {i \in DOMAIN its : its[i].library_id = library_id}
        found == [i \in ids |-> MatchTorrent(idx, its, ids, its[i])]
        new == [i \in DOMAIN its |->
                   IF i \in ids THEN ApplyTorrent(its[i], found[i]) ELSE its[i]]
        changed == {i \in ids : Changed(its[i], found[i])}
        contacted == lib.qb_url # None /\ lib.qb_username # None /\ lib.qb_password # None
    IN  IF idx.error # None
        THEN [items |-> its, changed |-> {}, updated |-> 0, error |-> idx.error,
              contacted |-> contacted]
        ELSE [items |-> new, changed |-> changed,
              updated |-> Cardinality(changed), error |-> None,
              contacted |-> contacted]

\* sync_library_torrents(db, library): the table as committed, the items
\* counted as changed, the count returned, the error raised instead of a
\* return (nothing is committed then), and whether a request went to the
\* client (_login posts once the URL, the user name and the password are
\* there).
sync_library_torrents(its, lib, client) ==
    IF ~lib.enable_arr \/ lib.qb_url = None
    THEN [items |-> its, changed |-> {}, updated |-> 0, error |-> None,
          contacted |-> FALSE]
    ELSE LET idx == build_torrent_index(lib, client)
             ids == {i \in DOMAIN its : its[i].library_id = library_id}
             found == [i \in ids |-> MatchTorrent(idx, its, ids, its[i])]
             new == [i \in DOMAIN its |->
                        IF i \in ids THEN ApplyTorrent(its[i], found[i]) ELSE its[i]]
             changed == {i \in ids : Changed(its[i], found[i])}
             contacted == lib.qb_username # None /\ lib.qb_password # None
         IN  IF idx.error # None
             THEN [items |-> its, changed |-> {}, updated |-> 0, error |-> idx.error,
                   contacted |-> contacted]
             ELSE [items |-> new, changed |-> changed,
                   updated |-> Cardinality(changed), error |-> None,
                   contacted |-> contacted]

\* ------------------------------------------------------------ scan worker
\* _update_scan_status: status.setdefault(library_id, {}).update(fields)
update_scan_status(status, fields) == fields @@ status

\* _start_scan without its check of the running state.
start_scan_NoGuard(status, t) ==
    [spawn |-> TRUE,
     status |-> update_scan_status(status,
        [state |-> "running", scanned_count |-> 0, total_count |-> 0,
         created_count |-> 0, updated_count |-> 0, missing_count |-> 0,
         started_at |-> Some(t), finished_at |-> None, error |-> None])]

\* _start_scan: what becomes of the status and whether a thread is started.
start_scan(status, t) ==
    IF status # << >> /\ "state" \in DOMAIN status /\ status.state = "running"
    THEN [spawn |-> FALSE, status |-> status]
    ELSE [spawn |-> TRUE,
          status |-> update_scan_status(status,
            [state |-> "running", scanned_count |-> 0, total_count |-> 0,
             created_count |-> 0, updated_count |-> 0, missing_count |-> 0,
             started_at |-> Some(t), finished_at |-> None, error |-> None])]

\* library_scan: a request to scan the library.
StartScan ==
    LET r == start_scan(scan_status, now)
    IN  /\ library # NoLibrary
        /\ scan_status' = r.status
        /\ IF r.spawn
           THEN \E w \in 1..MaxWorkers :
                    /\ worker[w].pc = "idle"
                    /\ \A v \in 1..(w - 1) : worker[v].pc # "idle"
                    /\ worker' = [worker EXCEPT ![w] = [pc |-> "start", total |-> 0]]
           ELSE worker' = worker
        /\ UNCHANGED <<core, txs, qb>>

\* _scan_worker up to the count of the files (lines 186-206).
WorkerCount(w) ==
    /\ worker[w].pc = "start"
    /\ IF library = NoLibrary
       THEN /\ scan_status' = update_scan_status(scan_status,
                [state |-> "error", error |-> Some("Library not found")])
            /\ worker' = [worker EXCEPT ![w] = NoWorker]
       ELSE IF ~library.enable_filesystem
       THEN /\ scan_status' = update_scan_status(scan_status,
                [state |-> "done", scanned_count |-> 0, total_count |-> 0,
                 created_count |-> 0, updated_count |-> 0, missing_count |-> 0,
                 finished_at |-> Some(now)])
            /\ worker' = [worker EXCEPT ![w] = NoWorker]
       ELSE LET total == Cardinality(iter_files(fs))
            IN  /\ scan_status' = update_scan_status(scan_status, [total_count |-> total])
                /\ worker' = [worker EXCEPT ![w] = [pc |-> "counted", total |-> total]]
    /\ UNCHANGED <<core, txs, qb>>

\* scan_library as the worker calls it (line 211): the scan and the last
\* progress payload it hands to _update_scan_status.
WorkerScan(w) ==
    \E vanished \in SUBSET iter_files(fs) :
        LET r == scan_library(items, library, fs, vanished, now)
        IN  /\ worker[w].pc = "counted"
            /\ DOMAIN r.items \subseteq 1..MaxItemId
            /\ items' = r.items
            /\ fs' = [q \in DOMAIN fs \ vanished |-> fs[q]]
            /\ scan_status' = update_scan_status(scan_status,
                    [scanned_count |-> r.scanned,
                     total_count |-> IF worker[w].total # 0 THEN worker[w].total
                                     ELSE r.scanned,
                     created_count |-> r.created,
                     updated_count |-> r.updated,
                     missing_count |-> r.missing])
            /\ worker' = [worker EXCEPT ![w].pc = "scanned"]
            /\ UNCHANGED <<entries, library, now, txs, qb>>

\* The worker writing state done without finished_at.
WorkerFinish_NoStamp(w) ==
    /\ worker[w].pc = "scanned"
    /\ items' = IF library.enable_arr /\ library.qb_url # None
                THEN sync_library_torrents(items, library, qb).items
                ELSE items
    /\ scan_status' = update_scan_status(scan_status, [state |-> "done"])
    /\ worker' = [worker EXCEPT ![w] = NoWorker]
    /\ UNCHANGED <<fs, entries, library, now, txs, qb>>

\* The worker without the try around the torrent sync: what the sync raises
\* reaches the handler of the worker.
WorkerFinish_SyncFatal(w) ==
    LET synced == IF library.enable_arr /\ library.qb_url # None
                  THEN sync_library_torrents(items, library, qb)
                  ELSE [items |-> items, error |-> None]
    IN  /\ worker[w].pc = "scanned"
        /\ items' = synced.items
        /\ scan_status' = IF synced.error # None
                          THEN update_scan_status(scan_status,
                                    [state |-> "error", error |-> synced.error])
                          ELSE update_scan_status(scan_status,
                                    [state |-> "done", finished_at |-> Some(now)])
        /\ worker' = [worker EXCEPT ![w] = NoWorker]
        /\ UNCHANGED <<fs, entries, library, now, txs, qb>>

\* _scan_worker after the scan (lines 212-218): the torrent sync when the
\* integration is configured, whose exceptions are logged and dropped, then
\* the state done; the thread ends.
WorkerFinish(w) ==
    /\ worker[w].pc = "scanned"
    /\ items' = IF library.enable_arr /\ library.qb_url # None
                THEN sync_library_torrents(items, library, qb).items
                ELSE items
    /\ scan_status' = update_scan_status(scan_status,
            [state |-> "done", finished_at |-> Some(now)])
    /\ worker' = [worker EXCEPT ![w] = NoWorker]
    /\ UNCHANGED <<fs, entries, library, now, txs, qb>>

\* A worker thread that ends on an exception without a word to the status.
WorkerFail_Silent(w) ==
    /\ worker[w].pc \in {"start", "counted"}
    /\ worker' = [worker EXCEPT ![w] = NoWorker]
    /\ UNCHANGED <<core, txs, qb, scan_status>>

\* An exception in the worker before scan_library has reported anything
\* (lines 219-221).
WorkerFail(w) ==
    /\ worker[w].pc \in {"start", "counted"}
    /\ scan_status' = update_scan_status(scan_status,
            [state |-> "error", error |-> Some("exc")])
    /\ worker' = [worker EXCEPT ![w] = NoWorker]
    /\ UNCHANGED <<core, txs, qb>>

NextWorker ==
    \/ Tick
    \/ EnvWrite
    \/ StartScan
    \/ \E w \in 1..MaxWorkers : WorkerCount(w)
    \/ \E w \in 1..MaxWorkers : WorkerScan(w)
    \/ \E w \in 1..MaxWorkers : WorkerFinish(w)
    \/ \E w \in 1..MaxWorkers : WorkerFail(w)

\* Scan requests and the worker threads they start.
SpecWorker == Init /\ [][NextWorker]_vars

\* ------------------------------------------------------------ torrent sync
\* The files the torrents of the model can hold: two paths with one basename,
\* and sizes on either side of the tolerance around a stored size of 1.
QbNames == {<<"Show", "b.MP4">>, <<"Other", "b.MP4">>}
QbSizes == {0, 1, 1 + TwoMiB, 2 + TwoMiB}

\* The k-th torrent of the client's list, with no file or with one file.
QbTorrents(k) ==
    {[hash |-> Some(k), save_path |-> <<"data">>, content_path |-> << >>,
      files |-> f, listing_ok |-> TRUE,
      ratio |-> Some(5 * k), seeding_time |-> Some(Tenths * k),
      num_seeds |-> Some(Tenths * k), num_leechs |-> Some(Tenths * k)] :
        f \in {<< >>} \cup {<<[name |-> n, size |-> sz]>> : n \in QbNames, sz \in QbSizes}}

QbClients ==
    UNION {{[torrents |-> t, login_ok |-> TRUE, info_ok |-> TRUE] : t \in {q \in [1..n -> UNION {QbTorrents(k) : k \in 1..n}] :
                                        \A k \in 1..n : q[k] \in QbTorrents(k)}} :
            n \in 0..MaxTorrents}

\* The inventory the sync finds: an item for either path or none, with a
\* stored size of 0 or 1 and no torrent attributed yet.
SyncItemRow(p, sz) ==
    [NewMediaItem(p, [size |-> sz, mtime |-> 1], 0) EXCEPT !.library_id = library_id]

SyncItems ==
    {<< >>} \cup {<<SyncItemRow(p, sz)>> : p \in QbNames, sz \in {0, 1}}
            \cup {<<SyncItemRow(<<"Show", "b.MP4">>, s1), SyncItemRow(<<"Other", "b.MP4">>, s2)>> :
                        s1 \in {0, 1}, s2 \in {0, 1}}

InitSync ==
    /\ fs = OtherFiles
    /\ items \in SyncItems
    /\ entries = << >>
    /\ library \in [enable_filesystem : {TRUE}, enable_arr : BOOLEAN,
                     qb_url : {Some("qb")}, qb_username : {Some("admin")},
                     qb_password : {Some("secret")},
                     qb_root_path : {<<"data">>}, name : {"Media"},
                     enable_plex : {FALSE}, plex_url : {None}]
    /\ now = 0
    /\ scanTx = NoScanTx
    /\ purgeTx = NoPurgeTx
    /\ scan_status = << >>
    /\ worker = [w \in 1..MaxWorkers |-> NoWorker]
    /\ qb \in QbClients

\* A completed sync_library_torrents.
Sync ==
    /\ items' = sync_library_torrents(items, library, qb).items
    /\ UNCHANGED <<fs, entries, library, now, txs, web, qb>>

\* The client loses its last torrent.
QbDrop ==
    /\ qb.torrents # << >>
    /\ qb' = [qb EXCEPT !.torrents = SubSeq(@, 1, Len(@) - 1)]
    /\ UNCHANGED <<core, txs, web>>

NextSync ==
    \/ Sync
    \/ QbDrop

\* Sync passes against a torrent client.
SpecSync == InitSync /\ [][NextSync]_vars

\* ---------------------------------------------------------- torrent client
\* remove_torrent: the login, then the torrents/delete request; post_ok tells
\* whether raise_for_status() lets the response pass.
remove_torrent(lib, client, hash, post_ok) ==
    IF login(lib, client) # None THEN [error |-> login(lib, client), client |-> client]
    ELSE IF ~post_ok THEN [error |-> Some("HTTPError"), client |-> client]
    ELSE [error |-> None,
          client |-> [client EXCEPT !.torrents = SelectSeq(@, LAMBDA t : t.hash # hash)]]

\* plan_action: which of the two parts the action has.
plan_action(action) ==
    [will_move_media |-> action \in {"media_only", "both"},
     will_remove_torrent |-> action \in {"torrent_only", "both"}]

\* execute_action forgetting the hash alone after the removal.
execute_action_HashOnly(its, ents, files, lib, client, id, action, post_ok, t) ==
    LET plan == plan_action(action)
        attempt == /\ plan.will_remove_torrent
                   /\ lib.enable_arr /\ lib.qb_url # None
                   /\ its[id].torrent_hash # None
        removal == IF attempt THEN remove_torrent(lib, client, its[id].torrent_hash, post_ok)
                   ELSE [error |-> Some("integration_not_configured"), client |-> client]
        its1 == IF attempt /\ removal.error = None
                THEN [its EXCEPT ![id] = [@ EXCEPT !.torrent_hash = None]]
                ELSE its
        moved == IF plan.will_move_media THEN move_to_trash(its1, ents, files, id, t)
                 ELSE [items |-> its1, entries |-> ents, fs |-> files]
    IN  [items |-> moved.items, entries |-> moved.entries, fs |-> moved.fs,
         client |-> removal.client, torrent_removed |-> attempt /\ removal.error = None]

\* execute_action: the torrent part (lines 58-89), then the media part
\* (lines 91-95).
execute_action(its, ents, files, lib, client, id, action, post_ok, t) ==
    LET plan == plan_action(action)
        attempt == /\ plan.will_remove_torrent
                   /\ lib.enable_arr /\ lib.qb_url # None
                   /\ its[id].torrent_hash # None
        removal == IF attempt THEN remove_torrent(lib, client, its[id].torrent_hash, post_ok)
                   ELSE [error |-> Some("integration_not_configured"), client |-> client]
        its1 == IF attempt /\ removal.error = None
                THEN [its EXCEPT ![id] = [@ EXCEPT !.torrent_hash = None,
                                                   !.torrent_ratio = None,
                                                   !.torrent_seed_time = None,
                                                   !.torrent_seeders = None,
                                                   !.torrent_leechers = None]]
                ELSE its
        moved == IF plan.will_move_media THEN move_to_trash(its1, ents, files, id, t)
                 ELSE [items |-> its1, entries |-> ents, fs |-> files]
    IN  [items |-> moved.items, entries |-> moved.entries, fs |-> moved.fs,
         client |-> removal.client, torrent_removed |-> attempt /\ removal.error = None]

\* The one file of each torrent, below its save path, and the save paths: the
\* configured client root, a directory whose name starts with the same
\* characters, and a directory named as the library.
QbFile == <<"Show", "b.MP4">>
QbSavePaths == {<<"data">>, <<"database">>, <<"Media">>}

\* The k-th torrent of a client that reports the statistics or does not.
QbListed(k, reports) ==
    {[hash |-> Some(k), save_path |-> sp, content_path |-> sp \o QbFile,
      files |-> <<[name |-> QbFile, size |-> 1]>>, listing_ok |-> ok,
      ratio |-> IF reports THEN Some(5 * k) ELSE None,
      seeding_time |-> IF reports THEN Some(Tenths * k) ELSE None,
      num_seeds |-> IF reports THEN Some(Tenths * k) ELSE None,
      num_leechs |-> IF reports THEN Some(Tenths * k) ELSE None] :
        sp \in QbSavePaths, ok \in BOOLEAN}

QbListings ==
    UNION {{[torrents |-> t, login_ok |-> TRUE, info_ok |-> TRUE] :
                t \in {q \in [1..n -> UNION {QbListed(k, reports) : k \in 1..n}] :
                            \A k \in 1..n : q[k] \in QbListed(k, reports)}} :
            n \in 0..MaxListed, reports \in BOOLEAN}

\* The inventory: nothing, the file of the torrents, or that file and another
\* of the same name.
QbItems ==
    {<< >>,
     <<SyncItemRow(QbFile, 1)>>,
     <<SyncItemRow(QbFile, 1), SyncItemRow(<<"Other", "b.MP4">>, 1)>>}

InitQb ==
    /\ items \in QbItems
    /\ fs = [q \in {items[i].path : i \in DOMAIN items} |-> [size |-> 1, mtime |-> 1]]
                @@ OtherFiles
    /\ entries = << >>
    /\ library \in [enable_filesystem : {TRUE}, enable_arr : {TRUE},
                     qb_url : {Some("qb")}, qb_username : {None, Some("admin")},
                     qb_password : {Some("secret")},
                     qb_root_path : {<< >>, <<"data">>}, name : {"Media"},
                     enable_plex : {FALSE}, plex_url : {None}]
    /\ now = 0
    /\ scanTx = NoScanTx
    /\ purgeTx = NoPurgeTx
    /\ scan_status = << >>
    /\ worker = [w \in 1..MaxWorkers |-> NoWorker]
    /\ qb \in QbListings

\* The client starts to refuse the login or the torrents/info request.
QbRefuse ==
    /\ qb.login_ok /\ qb.info_ok
    /\ \/ qb' = [qb EXCEPT !.login_ok = FALSE]
       \/ qb' = [qb EXCEPT !.info_ok = FALSE]
    /\ UNCHANGED <<core, txs, web>>

\* action_execute: execute_action on one item of the library.
ExecuteAction ==
    \E id \in DOMAIN items, action \in {"media_only", "torrent_only", "both"},
       post_ok \in BOOLEAN :
        LET r == execute_action(items, entries, fs, library, qb, id, action, post_ok, now)
        IN  /\ items[id].library_id = library_id
            /\ DOMAIN r.entries \subseteq 1..MaxEntryId
            /\ items' = r.items
            /\ entries' = r.entries
            /\ fs' = r.fs
            /\ qb' = r.client
            /\ <<items', entries', fs', qb'>> # <<items, entries, fs, qb>>
            /\ UNCHANGED <<library, now, txs, web>>

NextQb ==
    \/ Sync
    \/ QbDrop
    \/ QbRefuse
    \/ ExecuteAction

\* Sync passes and actions against a client whose requests can fail.
SpecQb == InitQb /\ [][NextQb]_vars

\* ------------------------------------------------------- library settings
\* _validate_arr_config: the errors of the form, with the Sonarr or Radarr
\* pair taken as filled in.
validate_arr_config(enable_arr, qb_url, qb_username, qb_password) ==
    IF ~enable_arr THEN {}
    ELSE IF qb_url = None \/ qb_username = None \/ qb_password = None
    THEN {"qBittorrent URL, username, and password are required"}
    ELSE {}

\* library_update: the form is written to the row unless it has errors.  The
\* form of the model changes the switch of the integration and the client
\* URL and sends the other fields as they are.
LibraryUpdate ==
    \E enable_arr \in BOOLEAN, qb_url \in {None, Some("qb")} :
        /\ library # NoLibrary
        /\ validate_arr_config(enable_arr, qb_url,
                               library.qb_username, library.qb_password) = {}
        /\ library' = [library EXCEPT !.enable_arr = enable_arr, !.qb_url = qb_url]
        /\ library' # library
        /\ UNCHANGED <<fs, items, entries, now, txs, web, qb>>

NextSettings ==
    \/ Sync
    \/ QbDrop
    \/ LibraryUpdate

\* Sync passes of a library whose settings are edited in between.
SpecSettings == InitQb /\ [][NextSettings]_vars

\* -------------------------------------------------------------- scan jobs
\* scan_library committing each file as it goes: what the table would hold
\* when the n-th step raises.
scan_library_failing_Partial(its, lib, files, t, n) ==
    LET walk == WalkOrder(iter_files(files))
        acc == ScanWalk([items |-> its, created |-> 0, updated |-> 0],
                        SubSeq(walk, 1, n - 1), ExistingByPath(its), files, {}, t)
    IN  [items |-> acc.items, progressed |-> n > 1, scanned |-> n - 1,
         created |-> acc.created, updated |-> acc.updated]

\* scan_library raising at its n-th step: the stat or the timestamp of the
\* n-th file of the walk, or, past the last file, the commit (line 123).  The
\* session is closed without a commit, so the table stays as loaded; the
\* progress callback has run for the files before the n-th (lines 105-114).
scan_library_failing(its, lib, files, t, n) ==
    LET walk == WalkOrder(iter_files(files))
        acc == ScanWalk([items |-> its, created |-> 0, updated |-> 0],
                        SubSeq(walk, 1, n - 1), ExistingByPath(its), files, {}, t)
    IN  [items |-> its, progressed |-> n > 1, scanned |-> n - 1,
         created |-> acc.created, updated |-> acc.updated]

\* An exception inside scan_library as the worker runs it (lines 211,
\* 219-223).
WorkerFailScan(w) ==
    \E n \in 1..(Cardinality(iter_files(fs)) + 1) :
        LET r == scan_library_failing(items, library, fs, now, n)
            reported == IF r.progressed
                        THEN update_scan_status(scan_status,
                                [scanned_count |-> r.scanned,
                                 total_count |-> worker[w].total,
                                 created_count |-> r.created,
                                 updated_count |-> r.updated,
                                 missing_count |-> 0])
                        ELSE scan_status
        IN  /\ worker[w].pc = "counted"
            /\ DOMAIN r.items \subseteq 1..MaxItemId
            /\ items' = r.items
            /\ scan_status' = update_scan_status(reported,
                    [state |-> "error", error |-> Some("exc")])
            /\ worker' = [worker EXCEPT ![w] = NoWorker]
            /\ UNCHANGED <<fs, entries, library, now, txs, qb>>

\* library_delete: the library goes, and its items and trash entries with
\* it (cascade).  Taken here while no worker is inside the scan.
LibraryDelete ==
    /\ library # NoLibrary
    /\ \A w \in 1..MaxWorkers : worker[w].pc \in {"idle", "start"}
    /\ library' = NoLibrary
    /\ items' = [i \in {j \in DOMAIN items : items[j].library_id # library_id} |-> items[i]]
    /\ entries' = [e \in {j \in DOMAIN entries : entries[j].library_id # library_id}
                        |-> entries[e]]
    /\ UNCHANGED <<fs, now, txs, web, qb>>

\* The libraries, inventories, disks and clients a scan job can meet.
JobClients ==
    {[torrents |-> <<t>>, login_ok |-> ok, info_ok |-> info] :
        t \in {q \in QbListed(1, TRUE) : q.listing_ok /\ q.save_path = <<"data">>},
        ok \in BOOLEAN, info \in BOOLEAN}

InitJob ==
    /\ fs \in {OtherFiles, (QbFile :> [size |-> 1, mtime |-> 1]) @@ OtherFiles}
    /\ items \in {<< >>, <<SyncItemRow(QbFile, 2)>>}
    /\ entries = << >>
    /\ library \in [enable_filesystem : BOOLEAN, enable_arr : BOOLEAN,
                     qb_url : {Some("qb")}, qb_username : {Some("admin")},
                     qb_password : {Some("secret")},
                     qb_root_path : {<<"data">>}, name : {"Media"},
                     enable_plex : BOOLEAN, plex_url : {Some("plex")}]
    /\ now = 0
    /\ scanTx = NoScanTx
    /\ purgeTx = NoPurgeTx
    /\ scan_status = << >>
    /\ worker = [w \in 1..MaxWorkers |-> NoWorker]
    /\ qb \in JobClients

\* One step of the worker thread w.
WorkerStep(w) ==
    \/ WorkerCount(w)
    \/ WorkerScan(w)
    \/ WorkerFinish(w)
    \/ WorkerFail(w)
    \/ WorkerFailScan(w)

NextJob ==
    \/ Tick
    \/ EnvDelete
    \/ StartScan
    \/ LibraryDelete
    \/ \E w \in 1..MaxWorkers : WorkerStep(w)

\* Scan jobs from request to end; a worker thread that has been started is
\* scheduled until it ends.
SpecJob ==
    /\ InitJob
    /\ [][NextJob]_vars
    /\ \A w \in 1..MaxWorkers : WF_vars(WorkerStep(w))

\* ------------------------------------------------- tables taken as given
\* The operations on tables as they can be found, whoever wrote the rows: a
\* missing row of another library, rows with both flags set (left by a scan side by side
\* with move_to_trash), a TrashEntry whose trashed path is outside ".trash",
\* entries that are expired from the start.
InputItemRows ==
    {[library_id |-> c[1],
      path |-> <<"Show", "b.MP4">>, size_bytes |-> 1, modified_at |-> 1,
      last_scan_at |-> 0, is_missing |-> c[2], is_in_trash |-> c[3],
      trashed_at |-> IF c[3] THEN 0 ELSE NoTime,
      trashed_path |-> IF c[3] THEN trash_root(<<"Show", "b.MP4">>) ELSE NoPath,
      torrent_hash |-> None, torrent_ratio |-> None, torrent_seed_time |-> None,
      torrent_seeders |-> None, torrent_leechers |-> None] :
        c \in {d \in LibraryIds \X BOOLEAN \X BOOLEAN :
                    d[1] # library_id => (d[2] /\ ~d[3])}}

InputItems == UNION {[1..n -> InputItemRows] : n \in 0..MaxRows}

\* The trashed path of the entry found in the table: inside the trash or not.
InputTrashedPaths == {<<TRASH, "a.mkv">>, <<"a.mkv">>}

InputEntryRows ==
    {[library_id |-> library_id,
      media_item_id |-> 1,
      original_path |-> <<"a.mkv">>,
      trashed_path |-> tp,
      trashed_at |-> at,
      purge_after |-> at + trash_retention_days] :
        tp \in InputTrashedPaths, at \in {0 - trash_retention_days, 0}}

InputEntries == {<< >>} \cup {<<e>> : e \in InputEntryRows}

InputFiles ==
    {[p \in S |-> [size |-> 2, mtime |-> 1]] @@ OtherFiles :
        S \in SUBSET ({<<"Show", "b.MP4">>} \cup InputTrashedPaths)}

InitInputs ==
    /\ fs \in InputFiles
    /\ items \in InputItems
    /\ entries \in InputEntries
    /\ library = [enable_filesystem |-> TRUE, enable_plex |-> FALSE, plex_url |-> None]
    /\ now = 0
    /\ scanTx = NoScanTx
    /\ purgeTx = NoPurgeTx
    /\ scan_status = << >>
    /\ worker = [w \in 1..MaxWorkers |-> NoWorker]
    /\ qb = NoQb

NextInputs ==
    \/ Tick
    \/ EnvDelete
    \/ Scan
    \/ MoveToTrash
    \/ Restore
    \/ PurgeExpired
    \/ ClearMissing

\* The operations, one after the other, from tables taken as given.
SpecInputs == InitInputs /\ [][NextInputs]_vars

\* ================================================================= claims
SameButScanTime(a, b) == [a EXCEPT !.last_scan_at = 0] = [b EXCEPT !.last_scan_at = 0]

ItemsAt(its, p) == {i \in DOMAIN its : its[i].path = p}

\* C1: a scan that follows a completed scan, with the disk as the first scan
\* walked it, reports created = 0, updated = 0 and missing = 0 and changes no
\* field of any MediaItem other than last_scan_at.
C1_ScanIdempotent ==
    [][ScanWith({}) =>
        \A t \in now'..MaxTime :
            LET again == scan_library(items', library', fs', {}, t)
            IN  /\ again.created = 0
                /\ again.updated = 0
                /\ again.missing = 0
                /\ DOMAIN again.items = DOMAIN items'
                /\ \A i \in DOMAIN items' : SameButScanTime(again.items[i], items'[i])]_vars

\* A scanned inventory with an item in step with its file and a missing item.
C1_Witness ==
    /\ library.enable_filesystem
    /\ \E i \in DOMAIN items :
        /\ items[i].path \in DOMAIN fs
        /\ ~items[i].is_missing
        /\ items[i].size_bytes = fs[items[i].path].size
        /\ items[i].modified_at = fs[items[i].path].mtime
    /\ \E i \in DOMAIN items : items[i].is_missing
    /\ LET again == scan_library(items, library, fs, {}, now)
       IN  again.created = 0 /\ again.updated = 0 /\ again.missing = 0

\* C2: no MediaItem is both in the trash and missing, and a missing MediaItem
\* has no trashed path.
C2_TrashMissingExclusive ==
    \A i \in DOMAIN items :
        /\ ~(items[i].is_in_trash /\ items[i].is_missing)
        /\ items[i].is_missing => items[i].trashed_path = NoPath

\* An item flagged missing whose file came back was moved to the trash.
C2_Witness ==
    /\ \E i \in DOMAIN items : items[i].is_in_trash /\ items[i].last_scan_at < items[i].trashed_at
    /\ \E i \in DOMAIN items : items[i].is_missing

\* C3: a scan creates no MediaItem for a file that a TrashEntry holds in the
\* trash: the inventory has no item at a trashed path after the scan unless it
\* had one before, and the scan adds no item.
C3_ScanSkipsTrash ==
    [][Scan =>
        \A e \in DOMAIN entries :
            (entries[e].trashed_path \in DOMAIN fs /\ ItemsAt(items, entries[e].trashed_path) = {})
                => ItemsAt(items', entries[e].trashed_path) = {}]_vars

\* C4: every MediaItem in the trash has exactly one TrashEntry referring to it.
C4_OneEntryPerTrashed ==
    \A i \in DOMAIN items :
        items[i].is_in_trash =>
            Cardinality({e \in DOMAIN entries : entries[e].media_item_id = i}) = 1

\* C5: when move_to_trash moves an active item whose file exists, restoring
\* the entry it made, with nothing in between, puts the file back at its path,
\* leaves nothing at the trashed path, leaves the item with its id and path
\* and with is_in_trash, trashed_path and trashed_at cleared, and leaves no
\* TrashEntry for the item.
C5_TrashRoundTrip ==
    [][\A i \in DOMAIN items :
        (MoveToTrashOf(i) /\ ~items[i].is_in_trash /\ items[i].path \in DOMAIN fs) =>
            LET out == move_to_trash(items, entries, fs, i, now)
                back == restore_from_trash(items', entries', fs', out.entry)
            IN  /\ out.moved
                /\ out.entry \in DOMAIN entries' \ DOMAIN entries
                /\ items'[i].is_in_trash
                /\ back.restored
                /\ items[i].path \in DOMAIN back.fs
                /\ back.fs[items[i].path] = fs[items[i].path]
                /\ items'[i].trashed_path \notin DOMAIN back.fs
                /\ DOMAIN back.items = DOMAIN items
                /\ back.items[i] = [items[i] EXCEPT !.is_in_trash = FALSE,
                                                    !.is_missing = FALSE,
                                                    !.trashed_path = NoPath,
                                                    !.trashed_at = NoTime]
                /\ \A e \in DOMAIN back.entries : back.entries[e].media_item_id # i]_vars

\* An item just moved to the trash: its file lies at the trashed path of its
\* entry and restore_from_trash brings it back.
C5_Witness ==
    \E e \in DOMAIN entries :
        LET i == entries[e].media_item_id
        IN  /\ i \in DOMAIN items
            /\ items[i].is_in_trash
            /\ items[i].trashed_at = now
            /\ entries[e].trashed_path \in DOMAIN fs
            /\ entries[e].original_path \notin DOMAIN fs
            /\ restore_from_trash(items, entries, fs, e).restored

\* C6: a step of the purge sweep never deletes the trashed file of a
\* TrashEntry whose purge_after is later than now.
C6_PurgeSparesFresh ==
    [][PurgeStep =>
        \A e \in DOMAIN entries :
            (entries[e].purge_after > now /\ entries[e].trashed_path \in DOMAIN fs)
                => entries[e].trashed_path \in DOMAIN fs']_vars

\* C7: also with a scan and move_to_trash side by side, no MediaItem is both
\* in the trash and missing.
C7_RaceTrashMissingExclusive ==
    \A i \in DOMAIN items : ~(items[i].is_in_trash /\ items[i].is_missing)

\* C8: at most one scan worker is alive, and only while the status state is
\* running; a scan request that finds the state running starts no worker and
\* leaves the status record as it is.
Alive == {w \in 1..MaxWorkers : worker[w].pc # "idle"}

Running == scan_status # << >> /\ scan_status.state = "running"

C8_OneWorkerPerLibrary ==
    /\ [](Cardinality(Alive) <= 1 /\ (Alive # {} => Running))
    /\ [][(StartScan /\ Running) => UNCHANGED <<scan_status, worker>>]_vars

\* A scan is under way and the clock has moved on since it started, so that a
\* second start would show in started_at.
C8_Witness ==
    /\ Running
    /\ \E w \in 1..MaxWorkers : worker[w].pc = "counted"
    /\ scan_status.started_at # Some(now)
    /\ scan_status.total_count > 0

\* C9: a completed scan of a library with filesystem scanning enabled creates
\* exactly one MediaItem for every media file on disk whose path had none,
\* not missing and with the file's size and modified time, and the created
\* count is the number of such files.
C9_CreatesOnePerNewFile ==
    [][\A vanished \in SUBSET iter_files(fs) :
        (ScanWith(vanished) /\ library.enable_filesystem) =>
            LET r == scan_library(items, library, fs, vanished, now)
                fresh == {p \in iter_files(fs') : ItemsAt(items, p) = {}}
            IN  /\ r.created = Cardinality(fresh)
                /\ Cardinality(DOMAIN items' \ DOMAIN items) = Cardinality(fresh)
                /\ \A p \in fresh :
                    /\ Cardinality(ItemsAt(items', p)) = 1
                    /\ \A i \in ItemsAt(items', p) :
                        /\ i \notin DOMAIN items
                        /\ ~items'[i].is_missing
                        /\ ~items'[i].is_in_trash
                        /\ items'[i].size_bytes = fs'[p].size
                        /\ items'[i].modified_at = fs'[p].mtime]_vars

\* Two items created by one scan, one of them for a file found in the trash.
C9_Witness ==
    /\ Cardinality(DOMAIN items) >= 2
    /\ \A i \in DOMAIN items :
        /\ items[i].last_scan_at = now
        /\ items[i].path \in DOMAIN fs
        /\ ~items[i].is_missing /\ ~items[i].is_in_trash
        /\ items[i].size_bytes = fs[items[i].path].size

\* C10: a scan that starts with the file of a non-trashed item absent flags
\* the item missing and counts it if it was not flagged, and leaves it as it
\* is and does not count it if it was; an item in the trash whose path the
\* walk does not yield is left as it is.
C10_MissingOnce ==
    [][\A vanished \in SUBSET iter_files(fs) :
        (ScanWith(vanished) /\ library.enable_filesystem) =>
            LET r == scan_library(items, library, fs, vanished, now)
                absent == {i \in DOMAIN items : items[i].path \notin DOMAIN fs}
                flagged == {i \in absent : ~items[i].is_in_trash /\ ~items[i].is_missing}
            IN  /\ r.missing = Cardinality(flagged)
                /\ \A i \in flagged : items'[i] = [items[i] EXCEPT !.is_missing = TRUE]
                /\ \A i \in absent \ flagged : items'[i] = items[i]
                /\ \A i \in DOMAIN items \ absent :
                    items'[i].is_missing => (items[i].path \in vanished /\ items[i].is_missing)]_vars

\* A missing item, scanned again since it was flagged, next to an item in the trash.
C10_Witness ==
    /\ \E i \in DOMAIN items :
        /\ items[i].is_missing
        /\ items[i].path \notin DOMAIN fs
    /\ \E i \in DOMAIN items :
        /\ items[i].is_in_trash
        /\ items[i].path \notin DOMAIN fs
        /\ ~items[i].is_missing

\* C11: a completed scan of a library with filesystem scanning enabled that
\* finds the file of a missing item at the item's path clears is_missing on
\* that item, sets its size and modified time from the file, creates no item
\* for the path, and the updated count is the number of items whose file was
\* found and that were missing or whose size or modified time differed.
C11_Reappearance ==
    [][\A vanished \in SUBSET iter_files(fs) :
        (ScanWith(vanished) /\ library.enable_filesystem) =>
            LET r == scan_library(items, library, fs, vanished, now)
                back == {i \in DOMAIN items :
                            items[i].is_missing /\ items[i].path \in DOMAIN fs'}
                touched == {i \in DOMAIN items :
                            /\ items[i].path \in iter_files(fs')
                            /\ \/ items[i].is_missing
                               \/ items[i].size_bytes # fs'[items[i].path].size
                               \/ items[i].modified_at # fs'[items[i].path].mtime}
            IN  /\ \A i \in back :
                    /\ items'[i] = [items[i] EXCEPT
                                        !.is_missing = FALSE,
                                        !.size_bytes = fs'[items[i].path].size,
                                        !.modified_at = fs'[items[i].path].mtime,
                                        !.last_scan_at = now]
                    /\ ItemsAt(items', items[i].path) = {i}
                /\ back \subseteq touched
                /\ r.updated = Cardinality(touched)]_vars

\* A missing item whose file is back with another size: the scan takes the
\* item up again and counts one update.
C11_Witness ==
    /\ library.enable_filesystem
    /\ \E i \in DOMAIN items :
        /\ items[i].is_missing
        /\ items[i].path \in DOMAIN fs
        /\ items[i].size_bytes # fs[items[i].path].size
        /\ LET r == scan_library(items, library, fs, {}, now)
           IN  /\ r.updated = 1
               /\ r.created = 0
               /\ ~r.items[i].is_missing
               /\ r.items[i].size_bytes = fs[items[i].path].size

\* C12: a scan removes no MediaItem, and clear-missing removes exactly the
\* items of the library with is_missing = true and is_in_trash = false and
\* changes no other MediaItem, no TrashEntry and no file.
C12_ScanKeepsClearMissingExact ==
    /\ [][Scan => DOMAIN items \subseteq DOMAIN items']_vars
    /\ [][ClearMissing =>
            LET gone == {i \in DOMAIN items :
                            /\ items[i].library_id = library_id
                            /\ items[i].is_missing
                            /\ ~items[i].is_in_trash}
            IN  /\ DOMAIN items' = DOMAIN items \ gone
                /\ \A i \in DOMAIN items' : items'[i] = items[i]
                /\ entries' = entries
                /\ fs' = fs]_vars

\* After clear-missing: a row between two others is gone (only clear-missing
\* deletes rows), the missing row of another library is still there and so
\* is the TrashEntry, and clear-missing has nothing left to remove.
C12_Witness ==
    /\ \E k \in 1..MaxItemId : k \notin DOMAIN items /\ k < Max(DOMAIN items \cup {0})
    /\ \E i \in DOMAIN items :
        items[i].library_id # library_id /\ items[i].is_missing /\ ~items[i].is_in_trash
    /\ entries # << >>
    /\ library_clear_missing(items) = items

\* C13: every file a purge sweep deletes lies at a path with a ".trash"
\* segment that is the trashed_path of a TrashEntry with purge_after <= now;
\* the file at a trashed path without a ".trash" segment stays.
C13_PurgeGuard ==
    [][PurgeExpired =>
        /\ \A p \in DOMAIN fs \ DOMAIN fs' :
            /\ InTrashParts(p)
            /\ \E e \in Expired(entries, now) : entries[e].trashed_path = p
        /\ \A p \in DOMAIN fs' : p \in DOMAIN fs /\ fs'[p] = fs[p]
        /\ \A e \in DOMAIN entries :
            (~InTrashParts(entries[e].trashed_path) /\ entries[e].trashed_path \in DOMAIN fs)
                => entries[e].trashed_path \in DOMAIN fs']_vars

\* Later than the start, an expired TrashEntry whose trashed path has no
\* ".trash" segment and whose file is on disk: the sweep removes the entry
\* and keeps the file.
C13_Witness ==
    /\ now > 0
    /\ \E e \in Expired(entries, now) :
        /\ ~InTrashParts(entries[e].trashed_path)
        /\ entries[e].trashed_path \in DOMAIN fs
        /\ LET r == purge_expired_trash(entries, fs, now, {})
           IN  r.fs = fs /\ e \notin DOMAIN r.entries /\ r.purged = 1

C16_MoveToTrashRefusals ==
    \A id \in DOMAIN items :
        LET r == move_to_trash(items, entries, fs, id, now)
            kept == /\ ~r.moved
                    /\ r.fs = fs
                    /\ r.items = items
                    /\ r.entries = entries
        IN  /\ items[id].is_in_trash => (kept /\ r.reason = "already_in_trash")
            /\ (~items[id].is_in_trash /\ items[id].path \notin DOMAIN fs)
                    => (kept /\ r.reason = "missing")

\* Later than the start, an item in the trash with no file at its path (both
\* refusals apply) next to an item outside the trash with no file.
C16_Witness ==
    /\ now > 0
    /\ entries # << >>
    /\ \E i, j \in DOMAIN items :
        /\ items[i].is_in_trash /\ items[i].path \notin DOMAIN fs
        /\ ~items[j].is_in_trash /\ items[j].path \notin DOMAIN fs
        /\ move_to_trash(items, entries, fs, i, now).reason = "already_in_trash"
        /\ move_to_trash(items, entries, fs, j, now).reason = "missing"

C18_RestoreRefusals ==
    \A e \in DOMAIN entries :
        LET r == restore_from_trash(items, entries, fs, e)
            kept == /\ ~r.restored
                    /\ r.fs = fs
                    /\ r.entries = entries
                    /\ r.items = items
        IN  /\ entries[e].trashed_path \notin DOMAIN fs => (kept /\ r.reason = "missing")
            /\ (entries[e].trashed_path \in DOMAIN fs /\ ~InTrashParts(entries[e].trashed_path))
                    => (kept /\ r.reason = "invalid_trash_path")

\* An entry made by move_to_trash whose file has gone from the trash next to
\* an entry whose trashed path lies outside the trash with its file on disk.
C18_Witness ==
    \E e1, e2 \in DOMAIN entries :
        /\ entries[e1].trashed_path \notin DOMAIN fs
        /\ InTrashParts(entries[e1].trashed_path)
        /\ entries[e1].media_item_id \in DOMAIN items
        /\ items[entries[e1].media_item_id].is_in_trash
        /\ entries[e2].trashed_path \in DOMAIN fs
        /\ ~InTrashParts(entries[e2].trashed_path)
        /\ restore_from_trash(items, entries, fs, e1).reason = "missing"
        /\ restore_from_trash(items, entries, fs, e2).reason = "invalid_trash_path"

\* C19: after a sync pass of a library with torrent integration enabled,
\* every item whose path has an entry in the exact-path index carries the
\* hash of the torrent of that entry, whatever the basename index holds for
\* the item's basename.
C19_ExactPathFirst ==
    library.enable_arr =>
        LET idx == build_torrent_index(library, qb)
            r == sync_library_torrents(items, library, qb)
        IN  \A i \in DOMAIN items :
                AbsPath(items[i].path) \in DOMAIN idx.index =>
                    r.items[i].torrent_hash = idx.index[AbsPath(items[i].path)].hash

\* After a sync: an item attributed to the torrent of its exact-path entry
\* although the basename stage on its own picks another torrent.
C19_Witness ==
    /\ library.enable_arr
    /\ LET idx == build_torrent_index(library, qb)
       IN  \E i \in DOMAIN items :
            /\ AbsPath(items[i].path) \in DOMAIN idx.index
            /\ BasenameMatch(idx.basename_index, items[i]) # None
            /\ BasenameMatch(idx.basename_index, items[i]) # ExactMatch(idx.index, items[i])
            /\ items[i].torrent_hash = idx.index[AbsPath(items[i].path)].hash
            /\ sync_library_torrents(items, library, qb).items = items

\* C20: for an item without an exact-path entry, the basename stage chooses
\* the only candidate of the item's basename when there is exactly one, and
\* with two or more candidates the first in index order whose size is at most
\* 2 MiB away from the item's stored size, and none when no candidate is.
C20_BasenameFallback ==
    library.enable_arr =>
        LET idx == build_torrent_index(library, qb)
        IN  \A i \in DOMAIN items :
                ExactMatch(idx.index, items[i]) = None =>
                    LET base == items[i].path[Len(items[i].path)]
                        candidates == IF base \in DOMAIN idx.basename_index
                                      THEN idx.basename_index[base] ELSE << >>
                        close == {k \in 1..Len(candidates) :
                                    /\ candidates[k].size # NoSize
                                    /\ Abs(candidates[k].size - items[i].size_bytes) <= TwoMiB}
                        chosen == BasenameMatch(idx.basename_index, items[i])
                    IN  /\ Len(candidates) = 1 => chosen = Some(candidates[1].torrent)
                        /\ Len(candidates) >= 2 =>
                            IF close = {} THEN chosen = None
                            ELSE chosen = Some(candidates[CHOOSE k \in close :
                                                    \A j \in close : k <= j].torrent)

\* The ids of the library's items, as sync_library_torrents queries them.
LibraryItems == {i \in DOMAIN items : items[i].library_id = library_id}

\* The depths at which exactly one item of the library has the suffix key of
\* item i.
UniqueDepths(i) ==
    {d \in 1..3 :
        /\ Len(PathParts(items[i])) >= d
        /\ Cardinality(SuffixMatches(items, LibraryItems, d,
                                     SuffixKey(PathParts(items[i]), d))) = 1}

\* C21: after a sync pass, an item that neither the exact-path stage nor the
\* basename stage matches carries a torrent only when one of its 1-, 2- or
\* 3-component suffix keys belongs to exactly one item of the library, and
\* then the torrent of that item's exact-path entry; a key two or more items
\* share (compared in lower case) attributes nothing.
C21_SuffixUnique ==
    library.enable_arr =>
        LET idx == build_torrent_index(library, qb)
            r == sync_library_torrents(items, library, qb)
        IN  \A i \in LibraryItems :
                (/\ ExactMatch(idx.index, items[i]) = None
                 /\ BasenameMatch(idx.basename_index, items[i]) = None
                 /\ r.items[i].torrent_hash # None) =>
                    \E d \in UniqueDepths(i) :
                        LET j == CHOOSE k \in SuffixMatches(items, LibraryItems, d,
                                        SuffixKey(PathParts(items[i]), d)) : TRUE
                        IN  /\ ExactMatch(idx.index, items[j]) # None
                            /\ r.items[i].torrent_hash = ExactMatch(idx.index, items[j])[1].hash

\* After a sync: an item left without a torrent by the exact-path and basename
\* stages, whose last component is also the last component of another item
\* that has an exact-path entry; the other item carries the torrent, this one
\* carries none.
C21_Witness ==
    /\ library.enable_arr
    /\ sync_library_torrents(items, library, qb).items = items
    /\ LET idx == build_torrent_index(library, qb)
       IN  \E i, j \in LibraryItems :
            /\ i # j
            /\ ExactMatch(idx.index, items[i]) = None
            /\ BasenameMatch(idx.basename_index, items[i]) = None
            /\ j \in SuffixMatches(items, LibraryItems, 1, SuffixKey(PathParts(items[i]), 1))
            /\ ExactMatch(idx.index, items[j]) # None
            /\ items[j].torrent_hash # None
            /\ items[i].torrent_hash = None
            /\ 1 \notin UniqueDepths(i)

\* The torrent the pass finds for item i with the client as it is now.
FoundFor(i) ==
    MatchTorrent(build_torrent_index(library, qb), items, LibraryItems, items[i])

\* Whether the pass runs to its commit: the integration is configured and
\* the client answers.
SyncCompletes ==
    /\ library.enable_arr
    /\ library.qb_url # None
    /\ sync_library_torrents(items, library, qb).error = None

\* C22: after a completed sync pass, every item matched to a torrent carries
\* that torrent's hash, ratio, seeding time, seeder count and leecher count
\* as the client reports them in this pass.
C22_MatchedFieldsCopied ==
    SyncCompletes =>
        LET r == sync_library_torrents(items, library, qb)
        IN  \A i \in LibraryItems :
                FoundFor(i) # None =>
                    /\ r.items[i].torrent_hash = FoundFor(i)[1].hash
                    /\ r.items[i].torrent_ratio = FoundFor(i)[1].ratio
                    /\ r.items[i].torrent_seed_time = FoundFor(i)[1].seeding_time
                    /\ r.items[i].torrent_seeders = FoundFor(i)[1].num_seeds
                    /\ r.items[i].torrent_leechers = FoundFor(i)[1].num_leechs

\* An item that carries the five values of one torrent and is matched by the
\* next pass to another torrent, whose five values it then carries.
C22_Witness ==
    /\ SyncCompletes
    /\ \E i \in LibraryItems :
        /\ FoundFor(i) # None
        /\ items[i].torrent_hash # None
        /\ items[i].torrent_leechers # None
        /\ items[i].torrent_hash # FoundFor(i)[1].hash
        /\ items[i].torrent_leechers # FoundFor(i)[1].num_leechs
        /\ LET after == sync_library_torrents(items, library, qb).items[i]
           IN  /\ after.torrent_hash = FoundFor(i)[1].hash
               /\ after.torrent_ratio = FoundFor(i)[1].ratio
               /\ after.torrent_leechers = FoundFor(i)[1].num_leechs

\* At least one of the five torrent fields of the item is set.
HasTorrentField(item) ==
    \/ item.torrent_hash # None
    \/ item.torrent_ratio # None
    \/ item.torrent_seed_time # None
    \/ item.torrent_seeders # None
    \/ item.torrent_leechers # None

\* C23: after a completed sync pass, every item of the library that no
\* torrent matches has the five torrent fields null, and it is among the
\* items counted in the returned total exactly when one of the five was set
\* before the pass.
C23_UnmatchedCleared ==
    SyncCompletes =>
        LET r == sync_library_torrents(items, library, qb)
        IN  /\ r.updated = Cardinality(r.changed)
            /\ \A i \in LibraryItems :
                    FoundFor(i) = None =>
                        /\ ~HasTorrentField(r.items[i])
                        /\ i \in r.changed <=> HasTorrentField(items[i])

\* An item that carries the values of a torrent the client no longer lists
\* and that nothing matches: the pass clears it and counts it; and an item
\* with no field set that the pass does not count.
C23_Witness ==
    /\ SyncCompletes
    /\ \E i \in LibraryItems :
        /\ FoundFor(i) = None
        /\ items[i].torrent_hash # None
        /\ items[i].torrent_seeders # None
        /\ i \in sync_library_torrents(items, library, qb).changed
        /\ ~HasTorrentField(sync_library_torrents(items, library, qb).items[i])

\* C24: when the library lacks the user name or the password, or the client
\* rejects the login, a sync pass of a library with the integration switched
\* on and a client URL set ends with an error, counts nothing and leaves the
\* torrent fields of every MediaItem as they were.
C24_LoginFailureAborts ==
    (library.enable_arr /\ library.qb_url # None /\ login(library, qb) # None) =>
        LET r == sync_library_torrents(items, library, qb)
        IN  /\ r.error = login(library, qb)
            /\ r.updated = 0
            /\ r.items = items

\* The client rejects the login while an item still carries the values of a
\* torrent the client has dropped: a pass that went on would clear the item.
C24_Witness ==
    /\ library.enable_arr
    /\ library.qb_username # None
    /\ ~qb.login_ok
    /\ qb.torrents = << >>
    /\ \E i \in LibraryItems :
        /\ items[i].torrent_hash # None
        /\ sync_library_torrents(items, library, qb).error # None
        /\ sync_library_torrents(items, library, qb).items[i] = items[i]
        /\ sync_library_torrents(items, library, [qb EXCEPT !.login_ok = TRUE]).items[i]
                # items[i]

\* The torrents the two indexes hold, by hash.
IndexedHashes(idx) ==
    {idx.index[p].hash : p \in DOMAIN idx.index}
        \cup UNION {{idx.basename_index[b][k].torrent.hash :
                        k \in 1..Len(idx.basename_index[b])} :
                    b \in DOMAIN idx.basename_index}

\* C25: when the file listing of a torrent fails, build_torrent_index still
\* indexes the other torrents, and the torrent whose listing failed has no
\* entry in the exact-path index and none in the basename index.
C25_ListingFailureSkipped ==
    LET idx == build_torrent_index(library, qb)
    IN  idx.error = None =>
            \A k \in 1..Len(qb.torrents) :
                IF qb.torrents[k].listing_ok
                THEN qb.torrents[k].hash \in IndexedHashes(idx)
                ELSE qb.torrents[k].hash \notin IndexedHashes(idx)

\* The paths of the k-th torrent as the client names them.
RawPaths(k) ==
    LET torrent == qb.torrents[k]
        paths == build_file_paths(torrent, IF torrent.listing_ok THEN torrent.files ELSE << >>)
    IN  {paths[n].path : n \in 1..Len(paths)}

\* A client path below the directory qb_root_path, in the library: the
\* library root followed by what comes after qb_root_path.
UnderClientRoot(p) == root_path \o SubSeq(p, Len(library.qb_root_path) + 1, Len(p))

\* C26: with qb_root_path configured, a torrent path inside the directory
\* qb_root_path is mapped to the library root followed by the rest of the
\* path, and after a completed pass the item stored at exactly that path
\* carries the hash of a torrent with a file there (when no torrent from
\* elsewhere is mapped to the same path); a torrent path outside
\* that directory is mapped as if no qb_root_path were configured.
C26_ClientRootRemap ==
    library.qb_root_path # << >> =>
        /\ \A k \in 1..Len(qb.torrents) : \A p \in RawPaths(k) :
                map_qb_path(library, p) =
                    IF IsPrefix(library.qb_root_path, p) THEN UnderClientRoot(p)
                    ELSE MapBySegment(library, p)
        /\ SyncCompletes =>
                \A i \in LibraryItems :
                    LET here == {k \in 1..Len(qb.torrents) :
                                    \E p \in RawPaths(k) :
                                        /\ IsPrefix(library.qb_root_path, p)
                                        /\ UnderClientRoot(p) = AbsPath(items[i].path)}
                        landing == {k \in 1..Len(qb.torrents) :
                                    \E p \in RawPaths(k) :
                                        map_qb_path(library, p) = AbsPath(items[i].path)}
                    IN  (here # {} /\ landing \subseteq here) =>
                            sync_library_torrents(items, library, qb).items[i].torrent_hash
                                \in {qb.torrents[k].hash : k \in here}

\* The status says the scan has ended.
Ended == scan_status # << >> /\ scan_status.state \in {"done", "error"}

\* C27: with the worker thread scheduled, a status in state running is
\* followed by state done or error; a worker that ends on an exception, and a
\* worker that finds its library gone, leave state error with an error
\* message that is not null.
C27_ScanEnds ==
    /\ Running ~> Ended
    /\ [][\A w \in 1..MaxWorkers :
            (\/ WorkerFail(w)
             \/ WorkerFailScan(w)
             \/ (WorkerCount(w) /\ library = NoLibrary)) =>
                (scan_status'.state = "error" /\ scan_status'.error # None)]_vars

\* The library was deleted after the scan request, and the worker has ended
\* the scan in state error with its message.
C27_Witness ==
    /\ library = NoLibrary
    /\ Alive = {}
    /\ scan_status # << >>
    /\ scan_status.state = "error"
    /\ scan_status.error = Some("Library not found")

\* C28: a scan pass that ends on an exception before its commit leaves the
\* table of MediaItems as it was, and the status state becomes error.
C28_FailedScanRollsBack ==
    [][\A w \in 1..MaxWorkers :
        /\ (WorkerFail(w) \/ WorkerFailScan(w)) => scan_status'.state = "error"
        /\ (/\ worker[w].pc \in {"start", "counted"}
            /\ worker'[w].pc = "idle"
            /\ scan_status'.state = "error") => items' = items]_vars

\* A pass that had met a new file and reported one creation before it
\* failed: the status is error, the file is on disk and the table is empty.
C28_Witness ==
    /\ library # NoLibrary
    /\ Alive = {}
    /\ scan_status # << >>
    /\ scan_status.state = "error"
    /\ scan_status.created_count = 1
    /\ QbFile \in DOMAIN fs
    /\ items = << >>

\* C29: in every state reached by scans, moves to the trash, restores, purges
\* and clear-missing runs, no two MediaItems of one library that are not in
\* the trash have the same path.
C29_PathUniqueOutsideTrash ==
    \A i, j \in DOMAIN items :
        (/\ i # j
         /\ items[i].library_id = items[j].library_id
         /\ ~items[i].is_in_trash
         /\ ~items[j].is_in_trash) => items[i].path # items[j].path

\* An item was moved to the trash, a scan listed the file inside ".trash" as
\* an item of its own, and the first item was restored: two items outside the
\* trash, the restored one at its original path with its file back on disk.
C29_Witness ==
    /\ entries = << >>
    /\ \E i, j \in DOMAIN items :
        /\ i # j
        /\ ~items[i].is_in_trash /\ ~items[j].is_in_trash
        /\ ~InTrashParts(items[i].path)
        /\ items[i].path \in DOMAIN fs
        /\ items[j].path = trash_root(items[i].path)
        /\ items[j].path \notin DOMAIN fs

\* C30: in every state reached by sync passes and torrent removals, a
\* MediaItem without a torrent hash has no ratio, seeding time, seeder count
\* or leecher count either.
C30_FieldsClearedTogether ==
    \A i \in DOMAIN items :
        items[i].torrent_hash = None => ~HasTorrentField(items[i])

\* A torrent was removed through an action on its item: the client no longer
\* lists the first torrent but still the second, and the item, which a pass
\* would match again, has none of the five fields.
C30_Witness ==
    /\ SyncCompletes
    /\ {qb.torrents[k].hash : k \in 1..Len(qb.torrents)} = {Some(2)}
    /\ \E i \in LibraryItems :
        /\ ~HasTorrentField(items[i])
        /\ FoundFor(i) # None
        /\ FoundFor(i)[1].ratio # None

\* The library as it is and as it would be with the integration switched off
\* or with no client URL.
WithoutIntegration ==
    {lib \in {library, [library EXCEPT !.enable_arr = FALSE],
                        [library EXCEPT !.qb_url = None]} :
        ~lib.enable_arr \/ lib.qb_url = None}

\* C31: a sync pass of a library whose integration is switched off, or that
\* has no client URL, returns 0, raises nothing, sends no request to the
\* torrent client and leaves every MediaItem as it is, torrent fields
\* included.
C31_DisabledSyncNoOp ==
    \A lib \in WithoutIntegration :
        LET r == sync_library_torrents(items, lib, qb)
        IN  /\ r.updated = 0
            /\ r.error = None
            /\ ~r.contacted
            /\ r.items = items

\* The integration was switched off after a pass attributed a torrent that
\* the client has dropped since: the pass leaves the item with its five
\* values, where a pass of the library as it was would clear them.
C31_Witness ==
    /\ ~library.enable_arr
    /\ library.qb_url # None
    /\ qb.torrents = << >>
    /\ \E i \in LibraryItems :
        /\ items[i].torrent_hash # None
        /\ items[i].torrent_leechers # None
        /\ sync_library_torrents(items, library, qb).items[i] = items[i]
        /\ ~HasTorrentField(
                sync_library_torrents(items, [library EXCEPT !.enable_arr = TRUE], qb).items[i])

\* The counters of the status record are all 0.
CountersZero(status) ==
    /\ status.scanned_count = 0
    /\ status.total_count = 0
    /\ status.created_count = 0
    /\ status.updated_count = 0
    /\ status.missing_count = 0

\* C32: scan_library of a library with filesystem scanning switched off
\* returns scanned = created = updated = missing = 0 and leaves every
\* MediaItem as it is; the scan worker of such a library ends with state done
\* and all counters 0, and touches no MediaItem.
C32_DisabledScanNoOp ==
    /\ [](library # NoLibrary =>
            LET r == scan_library(items, [library EXCEPT !.enable_filesystem = FALSE],
                                  fs, {}, now)
            IN  /\ r.scanned = 0 /\ r.created = 0 /\ r.updated = 0 /\ r.missing = 0
                /\ r.items = items)
    /\ [][\A w \in 1..MaxWorkers :
            (WorkerCount(w) /\ library # NoLibrary /\ ~library.enable_filesystem) =>
                /\ scan_status'.state = "done"
                /\ CountersZero(scan_status')
                /\ items' = items
                /\ worker'[w].pc = "idle"]_vars

\* A library with scanning switched off whose worker has ended with state
\* done and counters 0, while its one item has no file on disk and is not
\* flagged missing: a scan that walked would have flagged it.
C32_Witness ==
    /\ library # NoLibrary
    /\ ~library.enable_filesystem
    /\ Alive = {}
    /\ scan_status # << >>
    /\ scan_status.state = "done"
    /\ CountersZero(scan_status)
    /\ \E i \in LibraryItems :
        /\ items[i].path \notin DOMAIN fs
        /\ ~items[i].is_missing
        /\ ~items[i].is_in_trash

\* The five torrent fields of an item.
TorrentFields(item) ==
    <<item.torrent_hash, item.torrent_ratio, item.torrent_seed_time,
      item.torrent_seeders, item.torrent_leechers>>

\* C33: the count a completed sync pass returns is the number of MediaItems
\* of which at least one of the five torrent fields has another value after
\* the pass than before, and a second pass against the same client answer and
\* the inventory the first pass left returns 0 and changes no MediaItem.
C33_SyncCountExactIdempotent ==
    SyncCompletes =>
        LET r == sync_library_torrents(items, library, qb)
            again == sync_library_torrents(r.items, library, qb)
        IN  /\ r.updated = Cardinality({i \in DOMAIN items :
                                TorrentFields(r.items[i]) # TorrentFields(items[i])})
            /\ again.error = None
            /\ again.updated = 0
            /\ again.items = r.items

\* Two items carry a torrent each and the client has dropped a torrent: the
\* pass finds for one item the torrent it carries, writes nothing to it and
\* does not count it, and it gives the other item another torrent and counts
\* it; it returns 1.
C33_Witness ==
    /\ SyncCompletes
    /\ sync_library_torrents(items, library, qb).updated = 1
    /\ \E i, j \in LibraryItems :
        /\ i # j
        /\ items[i].torrent_hash # None
        /\ items[j].torrent_hash # None
        /\ FoundFor(i) # None
        /\ FoundFor(i)[1].hash = items[i].torrent_hash
        /\ sync_library_torrents(items, library, qb).changed = {j}
        /\ sync_library_torrents(items, library, qb).items[j].torrent_hash
                # items[j].torrent_hash

\* The torrent sync the worker would run now raises: the integration is
\* configured and the login or the torrent list fails.
SyncFails ==
    /\ library # NoLibrary
    /\ library.enable_arr
    /\ library.qb_url # None
    /\ sync_library_torrents(items, library, qb).error # None

\* C34: when the torrent sync that the worker runs after a scan raises, the
\* worker ends with state done and no error, the counters the scan reported
\* stay, and the MediaItems stay as the scan committed them.
C34_SyncFailureKeepsScan ==
    [][\A w \in 1..MaxWorkers :
        (worker[w].pc = "scanned" /\ worker'[w].pc = "idle" /\ SyncFails) =>
            /\ items' = items
            /\ scan_status'.state = "done"
            /\ scan_status'.error = None
            /\ scan_status'.created_count = scan_status.created_count
            /\ scan_status'.updated_count = scan_status.updated_count
            /\ scan_status'.missing_count = scan_status.missing_count]_vars

\* The client accepts the login and refuses the torrent list; the worker has
\* ended with state done, the item the scan created is in the table, and it
\* carries no torrent, which a sync that had gone through would have given it.
C34_Witness ==
    /\ SyncFails
    /\ qb.login_ok /\ ~qb.info_ok
    /\ Alive = {}
    /\ scan_status # << >>
    /\ scan_status.state = "done"
    /\ scan_status.error = None
    /\ scan_status.created_count = 1
    /\ \E i \in LibraryItems :
        /\ items[i].path = QbFile
        /\ items[i].torrent_hash = None
        /\ sync_library_torrents(items, library, [qb EXCEPT !.info_ok = TRUE]).items[i].torrent_hash
                # None

\* C35: a completed scan requests the refresh of the media server exactly
\* when the media server is enabled for the library, with its URL, and the
\* scan created an item, updated one or flagged one missing; a scan that
\* changed nothing requests none.
C35_RefreshAfterChanges ==
    library # NoLibrary =>
        \A vanished \in SUBSET iter_files(fs) :
            LET r == scan_library(items, library, fs, vanished, now)
            IN  r.refresh <=>
                    /\ library.enable_plex
                    /\ library.plex_url # None
                    /\ r.created > 0 \/ r.updated > 0 \/ r.missing > 0

\* The torrent the exact-path stage and the basename stage find for item i,
\* with no stage after them.
TwoStages(i) ==
    LET idx == build_torrent_index(library, qb)
        exact == ExactMatch(idx.index, items[i])
    IN  IF exact # None THEN exact ELSE BasenameMatch(idx.basename_index, items[i])

\* C36: for every item of the library the torrent the three stages find is
\* the one the exact-path and basename stages find alone, and a completed pass
\* leaves every item as a pass of those two stages would.
C36_SuffixStageIdle ==
    /\ \A i \in LibraryItems : FoundFor(i) = TwoStages(i)
    /\ SyncCompletes =>
            \A i \in LibraryItems :
                sync_library_torrents(items, library, qb).items[i]
                    = ApplyTorrent(items[i], TwoStages(i))

\* After a pass: an item that the first two stages leave without a torrent
\* and that alone has its two-component suffix key, so that the suffix stage
\* looks up the item's own path again, while another item of the same file
\* name has an exact-path entry and carries the torrent.
C36_Witness ==
    /\ SyncCompletes
    /\ sync_library_torrents(items, library, qb).items = items
    /\ \E i, j \in LibraryItems :
        /\ i # j
        /\ TwoStages(i) = None
        /\ 2 \in UniqueDepths(i)
        /\ 1 \notin UniqueDepths(i)
        /\ ExactMatch(build_torrent_index(library, qb).index, items[j]) # None
        /\ items[j].torrent_hash # None
        /\ items[i].torrent_hash = None

C38_FilesRepresented ==
    library.enable_filesystem =>
        LET r == scan_library(items, library, fs, {}, now)
        IN  \A p \in iter_files(fs) :
                ~InTrashParts(p) =>
                    \E i \in DOMAIN r.items :
                        /\ r.items[i].library_id = library_id
                        /\ r.items[i].path = p
                        /\ ~r.items[i].is_missing
                        /\ ~r.items[i].is_in_trash

\* The state an observer is shown: library_scan_status answers idle when the
\* dictionary has no record.
StateOf(status) == IF status = << >> THEN "idle" ELSE status.state

\* C39: the status record of the library is consistent in every state: with
\* state done, finished_at is set and error is null; with state running,
\* finished_at and error are null; with state error, error is set.  The state
\* changes only from no record, done or error to running, with the four
\* counters and the total at 0, and from running to done or error.
C39_StatusConsistent ==
    /\ [](scan_status # << >> =>
            /\ scan_status.state \in {"running", "done", "error"}
            /\ scan_status.state = "done" =>
                    (scan_status.finished_at # None /\ scan_status.error = None)
            /\ scan_status.state = "running" =>
                    (scan_status.finished_at = None /\ scan_status.error = None)
            /\ scan_status.state = "error" => scan_status.error # None)
    /\ [][StateOf(scan_status') # StateOf(scan_status) =>
            \/ /\ StateOf(scan_status) \in {"idle", "done", "error"}
               /\ StateOf(scan_status') = "running"
               /\ CountersZero(scan_status')
            \/ /\ StateOf(scan_status) = "running"
               /\ StateOf(scan_status') \in {"done", "error"}]_vars

\* A scan at time 0 has written the size of the file into the item and
\* counted it, and the scan requested at time 1 is running: the record shows
\* state running, no finished_at, no error and counters at 0.
C39_Witness ==
    /\ scan_status # << >>
    /\ scan_status.state = "running"
    /\ scan_status.started_at = Some(1)
    /\ scan_status.finished_at = None
    /\ scan_status.error = None
    /\ CountersZero(scan_status)
    /\ \E i \in LibraryItems :
        /\ items[i].size_bytes = 1
        /\ items[i].last_scan_at = 0
====
